---- MODULE Spec2Model ----
(***************************************************************************)
(* Martinez Orders, src/phonecaller.py: the Asterisk AMI session            *)
(* (AsteriskAMI), its call correlator and dedup cache (_process_event),     *)
(* and the webhook listener (WebhookServer).                                *)
(*                                                                          *)
(* Text.  A Python str is a sequence of atoms.  An atom is a TLA+ string    *)
(* that the code never looks inside of: a single character wherever the     *)
(* code inspects characters (separators ':', '-', '_', CR, LF, blanks, and  *)
(* the letters of channel names, which are uppercased), a whole word        *)
(* elsewhere ("CallerIDNum", "Ringing").  '' is << >>.                      *)
(* Optional values (None, a missing field) are sequences of length 0 or 1.  *)
(***************************************************************************)
EXTENDS Integers, Sequences, FiniteSets, TLC

VARIABLES
    watch_channel,      \* AsteriskAMI.watch_channel (upper-cased at construction)
    watch_number,       \* AsteriskAMI.watch_number
    processed_calls,    \* AsteriskAMI._processed_calls, the dedup cache: its keys of recurring calls
    once_keys,          \* AsteriskAMI._processed_calls: the number of its keys of one-time calls
    emitted,            \* history: number of incoming_call signals emitted per call identity
    matched_count,      \* history: number of records per call identity that satisfied a heuristic
    trimmed,            \* history: the dedup cache has been cut at least once
    fresh,              \* environment: number of one-time calls that arrived in this run
    last,               \* the handler that ran last (_process_event or the webhook handler):
                        \* its input, its HTTP response, the incoming_call signals it emitted
    webhook,            \* the webhook server: its running flag, its HTTP server, the
                        \* position of its serving thread and the request that this
                        \* thread is handling, the position of a caller of stop()
    trace,              \* history, kept where trace.on: the frames completed on the
                        \* socket stream and the requests served, in this order
                        \* (arrived), the frame whose terminator is on its way (tail),
                        \* and the incoming_call signals in the order of their emission
    configured,         \* AsteriskAMI.host and AsteriskAMI.username are both non-empty
    socket,             \* AsteriskAMI.socket: "none" (None), "open", "closed"
    connected,          \* AsteriskAMI.connected
    running,            \* AsteriskAMI.running
    auto_reconnect,     \* AsteriskAMI._auto_reconnect
    pc,                 \* where the startup thread (MainWindow._connect_ami) and the
                        \* event-loop thread (AsteriskAMI._event_loop) are; and whether
                        \* a second call of start_listening() has started a second
                        \* event-loop thread
    retry_count,        \* _reconnect: retry_count
    buffer,             \* _event_loop: buffer
    wire,               \* environment: the rest of the frame that the PBX is sending
    status,             \* the connection_status signal emitted last
    attempt,            \* history: the connect() call made last, who made it, how it ended
    response,           \* connect(): the login response received last
    delays,             \* history: the delays slept so far in the current _reconnect call
    losses,             \* environment: number of connection losses so far
    disconnect_called,  \* history: disconnect() has been called
    recovered           \* history: retry_count at the last successful reconnect, -1 before it

corrVars == <<watch_channel, watch_number, processed_calls, once_keys, emitted, matched_count, trimmed, fresh,
              last, trace, webhook>>

sessVars == <<configured, socket, connected, running, auto_reconnect, pc, retry_count, buffer,
              wire, status, attempt, response, delays, losses, disconnect_called, recovered>>

vars == <<corrVars, sessVars>>

-----------------------------------------------------------------------------
(* Bounds of the model *)

\* One-time calls already in the dedup cache when a dedup run starts.
WarmCache == 197
\* One-time calls that arrive during a run.
MaxFresh == 2
\* Cap of the per-identity history counters.
MaxCount == 2
\* Failed connect attempts in one _reconnect call.
MaxRetries == 5
\* Connection losses in a run.
MaxLosses == 2
\* Frames and requests that arrive in a run whose order is recorded.
MaxArrivals == 3
\* Failed attempts of the event loop to connect in such a run.
StreamRetries == 0

-----------------------------------------------------------------------------
(* Python str and dict operations *)

Whitespace == {" ", "\t", "\r", "\n"}

CRLF == <<"\r", "\n">>

RECURSIVE LStrip(_)
\* str.lstrip()
LStrip(s) ==
    IF s # << >> /\ Head(s) \in Whitespace THEN LStrip(Tail(s)) ELSE s

RECURSIVE RStrip(_)
\* str.rstrip()
RStrip(s) ==
    IF s # << >> /\ s[Len(s)] \in Whitespace THEN RStrip(SubSeq(s, 1, Len(s) - 1)) ELSE s

\* str.strip()
Strip(s) == RStrip(LStrip(s))

\* s[i:] starts with pat
StartsAt(s, i, pat) ==
    /\ i + Len(pat) - 1 <= Len(s)
    /\ \A j \in 1..Len(pat) : s[i + j - 1] = pat[j]

\* str.find(pat) + 1: the first position where pat occurs in s, 0 when it does not
IndexOf(s, pat) ==
    LET hits == {i \in 1..Len(s) : StartsAt(s, i, pat)}
    IN  IF hits = {} THEN 0 ELSE CHOOSE i \in hits : \A j \in hits : i <= j

\* pat in s
Contains(s, pat) == IndexOf(s, pat) > 0

\* s.split(pat, 1) for a pat that occurs in s: <<before, after>>
SplitOnce(s, pat) ==
    LET i == IndexOf(s, pat)
    IN  <<SubSeq(s, 1, i - 1), SubSeq(s, i + Len(pat), Len(s))>>

RECURSIVE Split(_, _)
\* s.split(pat): the list of the pieces between the occurrences of pat
Split(s, pat) ==
    IF Contains(s, pat)
    THEN <<SplitOnce(s, pat)[1]>> \o Split(SplitOnce(s, pat)[2], pat)
    ELSE <<s>>

\* str.upper() of one character
UpperChar(c) ==
    CASE c = "s" -> "S"
      [] c = "i" -> "I"
      [] c = "p" -> "P"
      [] c = "a" -> "A"
      [] c = "b" -> "B"
      [] OTHER -> c

\* str.upper()
Upper(s) == [i \in 1..Len(s) |-> UpperChar(s[i])]

\* {}
EmptyDict == [k \in {} |-> << >>]

\* d[k] = v
Put(d, k, v) == [x \in DOMAIN d \cup {k} |-> IF x = k THEN v ELSE d[x]]

\* d.get(k, default)
Get(d, k, default) == IF k \in DOMAIN d THEN d[k] ELSE default

-----------------------------------------------------------------------------
(* AsteriskAMI._process_event: decoding of one frame *)

\* s.rsplit(pat, 1) for a pat that occurs in s: <<before, after>>
SplitOnceFromRight(s, pat) ==
    LET i == CHOOSE h \in {j \in 1..Len(s) : StartsAt(s, j, pat)} :
                 \A j \in 1..Len(s) : StartsAt(s, j, pat) => j <= h
    IN  <<SubSeq(s, 1, i - 1), SubSeq(s, i + Len(pat), Len(s))>>

RECURSIVE ParseLinesAtLastColon(_, _)
\* as ParseLines, had the line been split at its last ':'
ParseLinesAtLastColon(lines, event) ==
    IF lines = << >> THEN event
    ELSE LET line == Head(lines)
         IN  IF Contains(line, <<":">>)
             THEN ParseLinesAtLastColon(Tail(lines),
                             Put(event, Strip(SplitOnceFromRight(line, <<":">>)[1]),
                                        Strip(SplitOnceFromRight(line, <<":">>)[2])))
             ELSE ParseLinesAtLastColon(Tail(lines), event)

\* as ParseEvent, had every line been split at its last ':'
ParseEventAtLastColon(event_str) ==
    ParseLinesAtLastColon(Split(Strip(event_str), CRLF), EmptyDict)

RECURSIVE ParseLines(_, _)
\* the loop over the lines of the frame: a line with ':' sets event[key.strip()] = value.strip()
ParseLines(lines, event) ==
    IF lines = << >> THEN event
    ELSE LET line == Head(lines)
         IN  IF Contains(line, <<":">>)
             THEN ParseLines(Tail(lines),
                             Put(event, Strip(SplitOnce(line, <<":">>)[1]),
                                        Strip(SplitOnce(line, <<":">>)[2])))
             ELSE ParseLines(Tail(lines), event)

\* event = {} ; for line in event_str.strip().split('\r\n'): ...
ParseEvent(event_str) == ParseLines(Split(Strip(event_str), CRLF), EmptyDict)

-----------------------------------------------------------------------------
(* AsteriskAMI._process_event: the three detection methods *)

None == << >>
Some(v) == <<v>>

\* `if actual_caller:` -- neither None nor ''
Truthy(opt) == opt # None /\ opt[1] # << >>

\* the values that are never a caller: ('<unknown>', '', 's', 'anonymous')
Placeholders == {<<"<unknown>">>, << >>, <<"s">>, <<"anonymous">>}

\* as CallerOrNone, had the tuple of placeholders lacked '<unknown>'
CallerOrNoneUnknownKept(v) ==
    IF v # << >> /\ v \notin (Placeholders \ {<<"<unknown>">>}) THEN Some(v) ELSE None

\* as CallerOrNone, had only the empty string been rejected
CallerOrNoneAnyText(v) == IF v # << >> THEN Some(v) ELSE None

\* v if v and v not in ('<unknown>', '', 's', 'anonymous') else None
CallerOrNone(v) == IF v # << >> /\ v \notin Placeholders THEN Some(v) ELSE None

\* as BaseName, had the channel not been uppercased
BaseNameAsSent(channel) == Split(channel, <<"-">>)[1]

\* channel.upper().split('-')[0]
BaseName(channel) == Split(Upper(channel), <<"-">>)[1]

\* as Method1, had self.watch_channel not been tested
Method1Unguarded(event, wc) ==
    LET event_type   == Get(event, <<"Event">>, << >>)
        caller_id    == Get(event, <<"CallerIDNum">>, << >>)
        dest_channel == Get(event, <<"DestChannel">>, << >>)
    IN  IF event_type = <<"DialBegin">> /\ dest_channel # << >>
           /\ BaseName(dest_channel) = wc
        THEN [actual_caller |-> CallerOrNone(caller_id),
              matched |-> Truthy(CallerOrNone(caller_id))]
        ELSE [actual_caller |-> None, matched |-> FALSE]

\* Method 1: DialBegin towards the watched channel
Method1(event, wc) ==
    LET event_type   == Get(event, <<"Event">>, << >>)
        caller_id    == Get(event, <<"CallerIDNum">>, << >>)
        dest_channel == Get(event, <<"DestChannel">>, << >>)
    IN  IF event_type = <<"DialBegin">> /\ wc # << >> /\ dest_channel # << >>
           /\ BaseName(dest_channel) = wc
        THEN [actual_caller |-> CallerOrNone(caller_id),
              matched |-> Truthy(CallerOrNone(caller_id))]
        ELSE [actual_caller |-> None, matched |-> FALSE]

\* as Method2, had the state not been tested
Method2AnyState(event, wc, prev) ==
    LET event_type   == Get(event, <<"Event">>, << >>)
        caller_id    == Get(event, <<"CallerIDNum">>, << >>)
        dest_channel == Get(event, <<"DestChannel">>, << >>)
    IN  IF ~prev.matched /\ event_type = <<"DialState">> /\ wc # << >> /\ dest_channel # << >>
           /\ BaseName(dest_channel) = wc
        THEN [actual_caller |-> CallerOrNone(caller_id),
              matched |-> Truthy(CallerOrNone(caller_id))]
        ELSE prev

\* Method 2: DialState with Ringing towards the watched channel
Method2(event, wc, prev) ==
    LET event_type   == Get(event, <<"Event">>, << >>)
        caller_id    == Get(event, <<"CallerIDNum">>, << >>)
        dest_channel == Get(event, <<"DestChannel">>, << >>)
        state        == Get(event, <<"ChannelStateDesc">>, << >>)
    IN  IF ~prev.matched /\ event_type = <<"DialState">> /\ wc # << >> /\ dest_channel # << >>
           /\ BaseName(dest_channel) = wc /\ state = <<"Ringing">>
        THEN [actual_caller |-> CallerOrNone(caller_id),
              matched |-> Truthy(CallerOrNone(caller_id))]
        ELSE prev

\* as Method3, had CallerIDNum been preferred to ConnectedLineNum
Method3CallerFirst(event, wc, prev) ==
    LET event_type    == Get(event, <<"Event">>, << >>)
        channel       == Get(event, <<"Channel">>, << >>)
        caller_id     == Get(event, <<"CallerIDNum">>, << >>)
        connected_num == Get(event, <<"ConnectedLineNum">>, << >>)
        state         == Get(event, <<"ChannelStateDesc">>, << >>)
        first         == CallerOrNone(caller_id)
        caller        == IF ~Truthy(first) THEN CallerOrNone(connected_num) ELSE first
    IN  IF ~prev.matched /\ event_type = <<"Newstate">> /\ state = <<"Ringing">>
           /\ wc # << >> /\ channel # << >> /\ BaseName(channel) = wc
        THEN [actual_caller |-> caller, matched |-> Truthy(caller)]
        ELSE prev

\* as Method3, had the event type not been tested
Method3AnyType(event, wc, prev) ==
    LET channel       == Get(event, <<"Channel">>, << >>)
        caller_id     == Get(event, <<"CallerIDNum">>, << >>)
        connected_num == Get(event, <<"ConnectedLineNum">>, << >>)
        state         == Get(event, <<"ChannelStateDesc">>, << >>)
        first         == CallerOrNone(connected_num)
        caller        == IF ~Truthy(first) THEN CallerOrNone(caller_id) ELSE first
    IN  IF ~prev.matched /\ state = <<"Ringing">>
           /\ wc # << >> /\ channel # << >> /\ BaseName(channel) = wc
        THEN [actual_caller |-> caller, matched |-> Truthy(caller)]
        ELSE prev

\* Method 3: Newstate Ringing on the watched channel itself
Method3(event, wc, prev) ==
    LET event_type    == Get(event, <<"Event">>, << >>)
        channel       == Get(event, <<"Channel">>, << >>)
        caller_id     == Get(event, <<"CallerIDNum">>, << >>)
        connected_num == Get(event, <<"ConnectedLineNum">>, << >>)
        state         == Get(event, <<"ChannelStateDesc">>, << >>)
        first         == CallerOrNone(connected_num)
        caller        == IF ~Truthy(first) THEN CallerOrNone(caller_id) ELSE first
    IN  IF ~prev.matched /\ event_type = <<"Newstate">> /\ state = <<"Ringing">>
           /\ wc # << >> /\ channel # << >> /\ BaseName(channel) = wc
        THEN [actual_caller |-> caller, matched |-> Truthy(caller)]
        ELSE prev

\* actual_caller and matched after the three methods, tried in order
Detect(event, wc) == Method3(event, wc, Method2(event, wc, Method1(event, wc)))

\* linked_id = event.get('Linkedid', unique_id)
LinkedId(event) == Get(event, <<"Linkedid">>, Get(event, <<"Uniqueid">>, << >>))

\* as CallKey, had the key been built from the linked-call id alone
CallKeyLinkedOnly(linked_id, actual_caller) == <<"call", "_">> \o linked_id

\* call_key = f"call_{linked_id}_{actual_caller}"
CallKey(linked_id, actual_caller) == <<"call", "_">> \o linked_id \o <<"_">> \o actual_caller

-----------------------------------------------------------------------------
(* The dedup cache *)

\* len(self._processed_calls) > 200
TrimAbove == 200
\* list(self._processed_calls)[-100:]
TrimKeep == 100

\* The dedup cache is the set processed_calls together with once_keys further keys.
\* A one-time call is a call whose Linkedid occurs in no other record: its key is
\* never looked up again, so the model counts these keys instead of naming them.
OnceId == <<"once">>
OnceCaller == <<"0700">>

\* len(self._processed_calls)
CacheLen(named, once) == Cardinality(named) + once

\* as TrimChoices, had the cache not been cut
TrimChoicesKeepAll(named, once) == {[named |-> named, once |-> once]}

\* set(list(s)[-100:]): a set has no order, so any 100 of the keys may be the ones
\* that remain
TrimChoices(named, once) ==
    {[named |-> kept, once |-> TrimKeep - Cardinality(kept)] :
        kept \in {K \in SUBSET named : /\ Cardinality(K) <= TrimKeep
                                       /\ TrimKeep - Cardinality(K) <= once}}

\* if len(self._processed_calls) > 200: self._processed_calls = set(list(...)[-100:])
CacheAfterAdd(named, once) ==
    IF CacheLen(named, once) > TrimAbove
    THEN TrimChoices(named, once)
    ELSE {[named |-> named, once |-> once]}

-----------------------------------------------------------------------------
(* History counters *)

\* the call identity of an AMI notification: (linked-call id, caller number)
AmiIdentity(linked_id, caller) == [src |-> "ami", linked |-> linked_id, caller |-> caller]

\* the identity under which a webhook notification is counted
WebhookIdentity(phone) == [src |-> "android", linked |-> << >>, caller |-> phone]

Bump(f, k) == [x \in DOMAIN f \cup {k} |-> IF x = k THEN Get(f, k, 0) + 1 ELSE f[x]]

Count(f, k) == Get(f, k, 0)

\* a notification as the incoming_call signal carries it: (phone, metadata)
Notification(phone, meta) == [phone |-> phone, meta |-> meta]

NoResponse == << >>

\* the order history, recorded or not
Trace(on) == [on |-> on, tail |-> << >>, arrived |-> << >>, handled |-> << >>, notified |-> << >>]

\* the history after the incoming_call signals `emits` of source src
Notified(tr, src, emits) ==
    IF tr.on
    THEN [tr EXCEPT !.notified = @ \o [i \in 1..Len(emits) |-> [src |-> src, phone |-> emits[i].phone]]]
    ELSE tr

\* the history after event_str was handed to _process_event
Handled(tr, event_str) ==
    IF tr.on THEN [tr EXCEPT !.handled = Append(@, event_str)] ELSE tr

\* the history after the arrival of `items` of source src
Arrived(tr, src, items) ==
    IF tr.on
    THEN [tr EXCEPT !.arrived = @ \o [i \in 1..Len(items) |-> [src |-> src, item |-> items[i]]]]
    ELSE tr

-----------------------------------------------------------------------------
(* WebhookServer: WebhookHandler *)

\* A JSON value of the request body: null or a string
JNull == [t |-> "null", v |-> << >>]
JStr(s) == [t |-> "str", v |-> s]

\* `if phone:`
JTruthy(j) == j.t = "str" /\ j.v # << >>

\* a response: the status line and the JSON document written to the client
Response(code, json) == [code |-> code, json |-> json]

\* as DoPost, had the handler answered 200 without emitting the signal
DoPostSilent(req) ==
    IF req.path = "/incoming-call" /\ req.body.kind = "object"
       /\ JTruthy(Get(req.body.data, <<"phone">>, JStr(<< >>)))
    THEN [response |-> Response(200, <<"status", "ok">>), emits |-> << >>]
    ELSE [response |-> Response(404, << >>), emits |-> << >>]

\* do_POST.  body.kind: "empty" (no bytes: json.loads raises), "malformed" (not JSON:
\* json.loads raises), "array" (JSON, but not an object: data.get raises),
\* "object" (data is body.data)
DoPost(req) ==
    IF req.path = "/incoming-call"
    THEN IF req.body.kind \in {"empty", "malformed"}
         THEN [response |-> Response(500, <<"error", "JSONDecodeError">>), emits |-> << >>]
         ELSE IF req.body.kind = "array"
         THEN [response |-> Response(500, <<"error", "AttributeError">>), emits |-> << >>]
         ELSE LET phone == Get(req.body.data, <<"phone">>, JStr(<< >>))
              IN  IF JTruthy(phone)
                  THEN [response |-> Response(200, <<"status", "ok">>),
                        emits |-> <<Notification(phone.v, <<"source", "android">>)>>]
                  ELSE [response |-> Response(400, <<"error", "phone required">>),
                        emits |-> << >>]
    ELSE [response |-> Response(404, << >>), emits |-> << >>]

\* as DoGet, had every path been answered like /health
DoGetAnyPath(req) == [response |-> Response(200, <<"status", "running">>), emits |-> << >>]

\* do_GET
DoGet(req) ==
    IF req.path = "/health"
    THEN [response |-> Response(200, <<"status", "running">>), emits |-> << >>]
    ELSE [response |-> Response(404, << >>), emits |-> << >>]

\* WebhookHandler defines do_POST and do_GET only: BaseHTTPRequestHandler, its base
\* class, answers a request of any other method with 501 (no do_<METHOD> to call)
Dispatch(req) ==
    CASE req.method = "POST" -> DoPost(req)
      [] req.method = "GET"  -> DoGet(req)
      [] OTHER -> [response |-> Response(501, <<"error", "Unsupported method">>),
                   emits |-> << >>]

\* one request served by WebhookServer._serve
HandleRequest(req) ==
    LET out == Dispatch(req)
    IN  /\ last' = [op |-> "http", input |-> req, response |-> out.response,
                    emits |-> out.emits]
        /\ IF out.emits # << >>
           THEN /\ Count(emitted, WebhookIdentity(out.emits[1].phone)) < MaxCount
                /\ emitted' = Bump(emitted, WebhookIdentity(out.emits[1].phone))
           ELSE emitted' = emitted
        /\ trace.on => Len(trace.arrived) < MaxArrivals
        /\ trace' = Notified(Arrived(trace, "android", <<req>>), "android", out.emits)
        /\ UNCHANGED <<watch_channel, watch_number, processed_calls, once_keys, matched_count, trimmed, fresh>>

-----------------------------------------------------------------------------
(* Inputs *)

\* config.asterisk['watch_channel'] as configured
SIP9 == <<"S", "I", "P", "/", "9">>
sip9 == <<"s", "i", "p", "/", "9">>
WatchConfigs == {<< >>, SIP9, sip9}

\* channel names as the PBX sends them: base name, '-', per-call suffix
ChanHit == SIP9 \o <<"-", "0", "a">>
ChanHitLower == sip9 \o <<"-", "0", "b">>
ChanMiss == <<"S", "I", "P", "/", "8", "-", "0", "a">>
\* a channel in mixed case whose suffix has a '-' in it; a channel of another
\* extension whose name begins with the name of the watched one
ChanDashes == <<"S", "i", "p", "/", "9", "-", "0", "c", "-", "1">>
ChanLonger == <<"S", "I", "P", "/", "9", "1", "-", "0", "a">>

PhoneA == <<"+359888000000">>
PhoneB == <<"0888123456">>

\* "Key: value"
Line(k, v) == <<k, ":", " ">> \o v

RECURSIVE Lines(_)
\* the lines of the fields that are present, each followed by CRLF
Lines(fields) ==
    IF fields = << >> THEN << >>
    ELSE IF Head(fields)[2] = None THEN Lines(Tail(fields))
    ELSE Line(Head(fields)[1], Head(fields)[2][1]) \o CRLF \o Lines(Tail(fields))

\* a frame as _event_loop hands it to _process_event: the text before '\r\n\r\n'
Frame(fields) ==
    LET t == Lines(fields) IN IF t = << >> THEN t ELSE SubSeq(t, 1, Len(t) - 2)

EventFrame(type, channel, dest, caller, connected_num, state, linked, unique) ==
    Frame(<< <<"Event", Some(type)>>, <<"Channel", channel>>, <<"DestChannel", dest>>,
             <<"CallerIDNum", caller>>, <<"ConnectedLineNum", connected_num>>,
             <<"ChannelStateDesc", state>>, <<"Linkedid", linked>>, <<"Uniqueid", unique>> >>)

\* records of every event type, towards the watched channel (DestChannel) or on it
\* (Channel), with every placeholder as CallerIDNum
WideEvents ==
    {EventFrame(type, target[1], target[2], nums[1], nums[2], state,
                Some(<<"1">>), Some(<<"7">>)) :
        type \in {<<"DialBegin">>, <<"DialState">>, <<"Newstate">>, <<"Hangup">>},
        target \in {<<Some(ChanHit), Some(ChanMiss)>>, <<None, Some(ChanHitLower)>>,
                    <<Some(ChanLonger), Some(ChanDashes)>>},
        nums \in ({None, Some(<<"<unknown>">>), Some(<<"s">>), Some(<<"anonymous">>),
                   Some(PhoneA)} \X {Some(<<"<unknown>">>)})
                 \cup ({Some(<<"<unknown>">>), Some(PhoneA)} \X {Some(PhoneB)}),
        state \in {Some(<<"Ringing">>), Some(<<"Up">>)}}

\* records that satisfy a heuristic, of three call identities, two of which have
\* the same call key; the linked-call id comes from Linkedid or from Uniqueid
DedupIdentities ==
    {<< <<"1">>, <<"3">> >>, << <<"1">>, <<"2", "_", "3">> >>, << <<"1", "_", "2">>, <<"3">> >>}
DedupEvents ==
    {EventFrame(<<"DialBegin">>, None, Some(ChanHit), Some(id[2]), None, None,
                Some(id[1]), Some(<<"7">>)) : id \in DedupIdentities}
    \cup
    {EventFrame(<<"Newstate">>, Some(ChanHit), None, None, Some(id[2]), Some(<<"Ringing">>),
                None, Some(id[1])) : id \in DedupIdentities}

\* the record of a one-time call: a DialBegin with a Linkedid that no other record has
FreshFrame ==
    EventFrame(<<"DialBegin">>, None, Some(ChanHit), Some(OnceCaller), None, None,
               Some(OnceId), Some(OnceId))

\* the frames that the PBX sends on the session
SessionFrames ==
    {EventFrame(<<"DialBegin">>, None, Some(ChanHitLower), Some(PhoneA),
                Some(<<"<unknown>">>), Some(<<"Ringing">>), Some(<<"1">>), Some(<<"7">>))}

\* the frames of two calls
StreamFrames ==
    SessionFrames \cup
    {EventFrame(<<"DialBegin">>, None, Some(ChanHitLower), Some(PhoneB),
                Some(<<"<unknown>">>), Some(<<"Ringing">>), Some(<<"2">>), Some(<<"8">>))}

\* a channel name with nothing before its '-'
ChanNoBase == <<"-", "0", "a">>

\* ringing records of the three event types: on the watched channel, towards it,
\* and on and towards a channel without a base name; the connected line is a
\* number that may be configured as watch_number
WatchEvents ==
    {EventFrame(type, Some(target[1]), Some(target[2]), Some(PhoneA), Some(<<"1034">>),
                Some(<<"Ringing">>), Some(<<"1">>), Some(<<"7">>)) :
        type \in {<<"DialBegin">>, <<"DialState">>, <<"Newstate">>},
        target \in {<<ChanHit, ChanMiss>>, <<ChanMiss, ChanHitLower>>, <<ChanNoBase, ChanNoBase>>}}

\* the lines that every frame of a call to the watched channel has, the call being
\* told by its Linkedid
CallLines(linked) ==
    Line("Event", <<"DialBegin">>) \o CRLF \o Line("DestChannel", ChanHit) \o CRLF
    \o Line("Linkedid", linked)

\* frames as a PBX may write them: a value with ':' in it; a line without ':'; white
\* space around the frame, the names and the values; a field given twice; a line
\* that ends with its ':' and one that begins with it; all of these at once
OddFrames ==
    {CallLines(<<"1">>) \o CRLF \o Line("CallerIDNum", PhoneA) \o CRLF
        \o <<"Time", ":", " ", "12", ":", "30", ":", "05">>,
     CallLines(<<"2">>) \o CRLF \o <<"--END COMMAND--">> \o CRLF \o Line("CallerIDNum", PhoneA),
     CRLF \o <<" ", "Event", " ", ":", "\t", "DialBegin", " ">> \o CRLF
        \o <<"DestChannel", "\t", ":">> \o ChanHit \o CRLF
        \o <<"\t", "CallerIDNum", ":", " ", " ">> \o PhoneA \o <<" ">> \o CRLF
        \o Line("Linkedid", <<"3">>) \o <<" ">>,
     CallLines(<<"4">>) \o CRLF \o Line("CallerIDNum", PhoneB) \o CRLF
        \o Line("CallerIDNum", PhoneA),
     CallLines(<<"5">>) \o CRLF \o <<"Context", ":">> \o CRLF \o <<":", "x">> \o CRLF
        \o Line("CallerIDNum", PhoneA),
     CRLF \o CallLines(<<"6">>) \o CRLF \o <<"--END COMMAND--">> \o CRLF
        \o <<"Time", " ", ":", "12", ":", "30", " ">> \o CRLF
        \o Line("CallerIDNum", PhoneB) \o CRLF \o <<":">> \o CRLF
        \o <<"CallerIDNum", ":", "\t">> \o PhoneA \o <<"\t">>}

\* a character that UTF-8 encodes in two bytes, and its two bytes
TwoByteChar == "U+0416"
LeadByte == "0xD0"
ContinuationByte == "0x96"

\* the frame of a call whose caller has a name of one two-byte character, as text
\* and as the bytes that the PBX sends
NamedFrameOf(name) ==
    EventFrame(<<"DialBegin">>, None, Some(ChanHitLower), Some(PhoneB),
               Some(<<"<unknown>">>), Some(<<"Ringing">>), Some(<<"2">>), Some(<<"8">>))
    \o CRLF \o Line("CallerIDName", name)
NamedFrame == NamedFrameOf(<<TwoByteChar>>)
NamedFrameBytes == NamedFrameOf(<<LeadByte, ContinuationByte>>)

\* a frame that follows in the buffer what was read of one frame, or of two,
\* before the connection closed: the text up to the middle of its terminator
MergedFrames ==
    {f \o CRLF \o g : f \in StreamFrames, g \in StreamFrames}
    \cup {f \o CRLF \o g \o CRLF \o h :
            f \in StreamFrames, g \in StreamFrames, h \in StreamFrames}

\* every frame of the model
Frames ==
    WideEvents \cup DedupEvents \cup {FreshFrame} \cup StreamFrames \cup MergedFrames
    \cup {NamedFrame} \cup OddFrames

\* the decoding of every frame, computed once
Decoded == [event_str \in Frames |-> ParseEvent(event_str)]

\* self.watch_number = config.asterisk.get('watch_number', ''): not configured, and
\* as it may be configured
NoWatchNumber == << >>
WatchNumbers == {NoWatchNumber, PhoneA, <<"1034">>}

\* self.watch_channel = config.asterisk.get('watch_channel', '').upper()
WatchChannels == {Upper(c) : c \in WatchConfigs}

\* the outcome of the three methods on every frame, computed once
Detected == [wc \in WatchChannels |-> [event_str \in Frames |-> Detect(Decoded[event_str], wc)]]

\* the decoding of any text
DecodedOf(event_str) ==
    IF event_str \in Frames THEN Decoded[event_str] ELSE ParseEvent(event_str)

\* the outcome of the three methods on any text
DetectedOf(wc, event_str) ==
    IF event_str \in Frames THEN Detected[wc][event_str] ELSE Detect(ParseEvent(event_str), wc)

\* request bodies
Body(kind, data) == [kind |-> kind, data |-> data]
NoBody == Body("empty", EmptyDict)
Bodies ==
    {NoBody, Body("malformed", EmptyDict), Body("array", EmptyDict),
     Body("object", EmptyDict),
     Body("object", Put(EmptyDict, <<"phone">>, JNull)),
     Body("object", Put(EmptyDict, <<"phone">>, JStr(<< >>))),
     Body("object", Put(EmptyDict, <<"phone">>, JStr(PhoneA)))}

Request(method, path, body) == [method |-> method, path |-> path, body |-> body]

\* every body to POST /incoming-call; every other method and path
Requests ==
    {Request("POST", "/incoming-call", b) : b \in Bodies}
    \cup {Request(m, p, Body("object", Put(EmptyDict, <<"phone">>, JStr(PhoneA)))) :
            m \in {"POST", "GET", "PUT"}, p \in {"/incoming-call", "/health", "/incoming-call/"}}

-----------------------------------------------------------------------------
(* WebhookServer.start, _serve, stop *)

NoRequest == [method |-> "", path |-> "", body |-> NoBody]

\* WebhookServer.__init__
NewWebhookServer ==
    [running |-> FALSE, server |-> "none", serve |-> "idle", request |-> NoRequest,
     stop |-> "idle"]

\* start(): `if self.running: return`; HTTPServer(...) binds the port or raises,
\* and then the failure is logged; self.running = True; the thread is started
WebhookStart ==
    /\ webhook.serve = "idle"
    /\ webhook.stop = "idle"
    /\ ~webhook.running
    /\ \/ webhook' = [webhook EXCEPT !.server = "listening", !.running = TRUE, !.serve = "test"]
       \/ webhook' = [webhook EXCEPT !.serve = "not started"]
    /\ UNCHANGED <<watch_channel, watch_number, processed_calls, once_keys, emitted, matched_count, trimmed,
                   fresh, last, trace, sessVars>>

\* _serve: while self.running and self.server:
ServeTest ==
    /\ webhook.serve = "test"
    /\ webhook' = [webhook EXCEPT !.serve = IF webhook.running /\ webhook.server # "none"
                                            THEN "waiting" ELSE "ended"]
    /\ UNCHANGED <<watch_channel, watch_number, processed_calls, once_keys, emitted, matched_count, trimmed,
                   fresh, last, trace, sessVars>>

\* _serve: self.server.handle_request() waits for a connection, without a
\* timeout, and accepts it
ServeAccept ==
    /\ webhook.serve = "waiting"
    /\ \E req \in Requests : webhook' = [webhook EXCEPT !.serve = "handling", !.request = req]
    /\ UNCHANGED <<watch_channel, watch_number, processed_calls, once_keys, emitted, matched_count, trimmed,
                   fresh, last, trace, sessVars>>

\* _serve: handle_request() runs the handler on the request and returns
ServeFinish ==
    /\ webhook.serve = "handling"
    /\ HandleRequest(webhook.request)
    /\ webhook' = [webhook EXCEPT !.serve = "test", !.request = NoRequest]
    /\ UNCHANGED sessVars

\* stop(): self.running = False; if self.server: self.server.shutdown();
\* self.server = None.  shutdown() sets the request to shut down and waits for the
\* event that serve_forever() sets when it ends; _serve never calls
\* serve_forever(), so the event stays unset and no step follows "shutdown"
WebhookStop ==
    /\ webhook.stop = "idle"
    /\ webhook.serve # "idle"
    /\ webhook' = [webhook EXCEPT !.running = FALSE,
                                  !.stop = IF webhook.server # "none" THEN "shutdown"
                                           ELSE "returned"]
    /\ UNCHANGED <<watch_channel, watch_number, processed_calls, once_keys, emitted, matched_count, trimmed,
                   fresh, last, trace, sessVars>>

-----------------------------------------------------------------------------
(* AsteriskAMI._process_event *)

\* lines 1080-1089: emit the signal unless the call key is in the dedup cache
EmitIfNew(event_str, event, hit, caller, linked_id) ==
    LET once    == linked_id = OnceId
        id      == AmiIdentity(linked_id, caller)
        key     == CallKey(linked_id, caller)
        named   == IF once THEN processed_calls ELSE processed_calls \cup {key}
        others  == IF once THEN once_keys + 1 ELSE once_keys
        emit    == [op |-> "ami", input |-> event_str, response |-> NoResponse,
                    emits |-> <<Notification(caller, event)>>]
        silent  == [op |-> "ami", input |-> event_str, response |-> NoResponse,
                    emits |-> << >>]
    IN  IF hit /\ once
        THEN \* the key of a one-time call is not in the cache
             /\ \E c \in CacheAfterAdd(named, others) :
                    processed_calls' = c.named /\ once_keys' = c.once
             /\ trimmed' = (trimmed \/ CacheLen(named, others) > TrimAbove)
             /\ fresh' = fresh + 1
             /\ last' = emit
             /\ trace' = Handled(Notified(trace, "ami", emit.emits), event_str)
             /\ UNCHANGED <<watch_channel, watch_number, webhook, emitted, matched_count>>
        ELSE IF hit
        THEN /\ Count(matched_count, id) < MaxCount
             /\ matched_count' = Bump(matched_count, id)
             /\ IF key \notin processed_calls
                THEN /\ Count(emitted, id) < MaxCount
                     /\ \E c \in CacheAfterAdd(named, others) :
                            processed_calls' = c.named /\ once_keys' = c.once
                     /\ trimmed' = (trimmed \/ CacheLen(named, others) > TrimAbove)
                     /\ emitted' = Bump(emitted, id)
                     /\ last' = emit
                     /\ trace' = Handled(Notified(trace, "ami", emit.emits), event_str)
                ELSE /\ last' = silent
                     /\ trace' = Handled(trace, event_str)
                     /\ UNCHANGED <<processed_calls, once_keys, trimmed, emitted>>
             /\ UNCHANGED <<watch_channel, watch_number, webhook, fresh>>
        ELSE /\ last' = silent
             /\ trace' = Handled(trace, event_str)
             /\ UNCHANGED <<watch_channel, watch_number, webhook, processed_calls, once_keys, emitted, matched_count,
                            trimmed, fresh>>

\* the caller found by the three methods, None when there is none
Caller(d) == IF d.matched /\ Truthy(d.actual_caller) THEN d.actual_caller ELSE None

\* one frame handed to _process_event
ProcessEvent(event_str) ==
    LET found == Caller(DetectedOf(watch_channel, event_str))
    IN  EmitIfNew(event_str, DecodedOf(event_str), found # None,
                  IF found # None THEN found[1] ELSE << >>,
                  LinkedId(DecodedOf(event_str)))

-----------------------------------------------------------------------------
(* AsteriskAMI: connect, disconnect, start_listening, _reconnect, _event_loop *)

\* self._reconnect_delay = 5
reconnect_delay == 5
\* max_delay = 60
max_delay == 60

Min(a, b) == IF a <= b THEN a ELSE b

\* as Delay, had the delay not been capped
DelayUncapped(count) == reconnect_delay * (2 ^ count)

\* delay = min(self._reconnect_delay * (2 ** retry_count), max_delay)
Delay(count) == Min(reconnect_delay * (2 ^ count), max_delay)

\* as RetryStart, had the counter been kept from one _reconnect call to the next
RetryStartKept(previous) == previous

\* retry_count = 0, on entry to _reconnect
RetryStart(previous) == 0

\* a connection_status signal; delay is the number in "Reconnecting in {delay}s..."
Status(ok, msg, delay) == [ok |-> ok, msg |-> msg, delay |-> delay]

NoStatus == Status(FALSE, "", 0)

Attempt(thread, result) == [by |-> thread, result |-> result]

\* '\r\n\r\n'
Terminator == CRLF \o CRLF

\* connect() returns ok to the thread t that called it.
\* startup (connect_thread): `if self.ami.connect(): self.ami.start_listening()`.
\* loop (_reconnect): `if self.connect(): return True`, else `retry_count += 1`;
\* _event_loop goes on to recv when _reconnect returned True
Returned(t, ok) ==
    /\ pc' = [pc EXCEPT ![t] = IF t = "startup"
                               THEN (IF ok THEN "start_listening" ELSE "done")
                               ELSE (IF ok THEN "recv" ELSE "reconnect")]
    /\ retry_count' = IF t = "loop" /\ ~ok THEN retry_count + 1 ELSE retry_count
    /\ recovered' = IF t = "loop" /\ ok THEN retry_count ELSE recovered

\* as HandleRejected, had a rejected login ended the reconnect loop
HandleRejectedGivesUp(t) ==
    /\ status' = Status(FALSE, "Auth failed", 0)
    /\ attempt' = Attempt(t, "Auth failed")
    /\ pc' = [pc EXCEPT ![t] = IF t = "startup" THEN "done" ELSE "exited"]
    /\ UNCHANGED <<retry_count, recovered>>

\* connect(): the login response lacks 'Success'
HandleRejected(t) ==
    /\ status' = Status(FALSE, "Auth failed", 0)
    /\ attempt' = Attempt(t, "Auth failed")
    /\ Returned(t, FALSE)

\* connect(), up to the blocking socket calls
ConnectBegin(t) ==
    /\ pc[t] = "connect"
    /\ IF ~configured
       THEN /\ status' = Status(FALSE, "Not configured", 0)
            /\ attempt' = Attempt(t, "Not configured")
            /\ Returned(t, FALSE)
            /\ UNCHANGED socket
       ELSE /\ status' = Status(FALSE, "Connecting...", 0)
            /\ attempt' = Attempt(t, "pending")
            /\ socket' = "open"
            /\ pc' = [pc EXCEPT ![t] = "io"]
            /\ UNCHANGED <<retry_count, recovered>>
    /\ UNCHANGED <<corrVars, configured, response, connected, running, auto_reconnect, buffer, wire,
                   delays, losses, disconnect_called>>

\* what the PBX may answer to the login command; '' when it closes the connection
LoginResponses ==
    { <<"Response", ":", " ", "Success", "\r", "\n", "Message", ":", " ", "Authentication accepted">>,
      <<"Response", ":", " ", "Error", "\r", "\n", "Message", ":", " ", "Authentication failed">>,
      << >> }

\* as HasSuccess, had the login response not been looked at
HasSuccessUnchecked(text) == TRUE

\* 'Success' in response
HasSuccess(text) == Contains(text, <<"Success">>)

\* connect(): socket.connect, recv, send, recv and the test of the login response
ConnectIOUpTo(t, cap) ==
    /\ pc[t] = "io"
    /\ \/ \* a login response is received
          /\ socket = "open"
          /\ \E r \in LoginResponses :
                /\ response' = r
                /\ IF HasSuccess(r)
                   THEN /\ pc' = [pc EXCEPT ![t] = "login_ok"]
                        /\ wire' = << >>
                        /\ UNCHANGED <<status, attempt, retry_count, recovered>>
                   ELSE /\ t = "loop" => retry_count < cap
                        /\ HandleRejected(t)
                        /\ UNCHANGED wire
       \/ \* a socket call raises: refused, timed out, or closed by disconnect()
          /\ (socket = "open" /\ t = "loop") => retry_count < cap
          /\ status' = Status(FALSE, "Connection failed", 0)
          /\ attempt' = Attempt(t, "Connection failed")
          /\ Returned(t, FALSE)
          /\ UNCHANGED <<wire, response>>
    /\ UNCHANGED <<corrVars, configured, socket, connected, running, auto_reconnect, buffer,
                   delays, losses, disconnect_called>>

\* connect(), in a run of at most MaxRetries failed attempts of the event loop
ConnectIO(t) == ConnectIOUpTo(t, MaxRetries)

\* connect(): self.connected = True; self.socket.settimeout(1); emit; return True.
\* settimeout raises on a socket that disconnect() has closed
ConnectFinish(t) ==
    /\ pc[t] = "login_ok"
    /\ connected' = TRUE
    /\ IF socket = "closed"
       THEN /\ status' = Status(FALSE, "Connection failed", 0)
            /\ attempt' = Attempt(t, "Connection failed")
            /\ Returned(t, FALSE)
       ELSE /\ status' = Status(TRUE, "Connected", 0)
            /\ attempt' = Attempt(t, "Connected")
            /\ Returned(t, TRUE)
    /\ UNCHANGED <<corrVars, configured, response, socket, running, auto_reconnect, buffer, wire,
                   delays, losses, disconnect_called>>

\* as Disconnect, had it emptied the dedup cache
DisconnectClearsCache ==
    /\ ~disconnect_called
    /\ auto_reconnect' = FALSE
    /\ running' = FALSE
    /\ connected' = FALSE
    /\ socket' = IF socket = "none" THEN "none" ELSE "closed"
    /\ disconnect_called' = TRUE
    /\ processed_calls' = {}
    /\ once_keys' = 0
    /\ UNCHANGED <<watch_channel, watch_number, webhook, emitted, matched_count, trimmed, fresh, last, trace,
                   configured, response, pc, retry_count, buffer, wire, status, attempt,
                   delays, losses, recovered>>

\* disconnect()
Disconnect ==
    /\ ~disconnect_called
    /\ auto_reconnect' = FALSE
    /\ running' = FALSE
    /\ connected' = FALSE
    /\ socket' = IF socket = "none" THEN "none" ELSE "closed"
    /\ disconnect_called' = TRUE
    /\ UNCHANGED <<corrVars, configured, response, pc, retry_count, buffer, wire, status, attempt,
                   delays, losses, recovered>>

\* start_listening(), and the first statement of the thread it starts: buffer = ""
StartListening ==
    /\ pc["startup"] = "start_listening"
    /\ running' = TRUE
    /\ auto_reconnect' = TRUE
    /\ pc' = [pc EXCEPT !["startup"] = "done", !["loop"] = "top"]
    /\ buffer' = << >>
    /\ UNCHANGED <<corrVars, configured, response, socket, connected, retry_count, wire, status,
                   attempt, delays, losses, disconnect_called, recovered>>

\* start_listening(), called once more by a user of the class: the flags are set
\* and another thread is started at the head of _event_loop, whether or not an
\* event loop is running already.  The steps of that thread are not followed.
StartListeningAgain ==
    /\ pc["second"] = "idle"
    /\ running' = TRUE
    /\ auto_reconnect' = TRUE
    /\ pc' = [pc EXCEPT !["second"] = "top"]
    /\ UNCHANGED <<corrVars, configured, response, socket, connected, retry_count, buffer,
                   wire, status, attempt, delays, losses, disconnect_called, recovered>>

\* _event_loop: `while self.running:` and the test of self.connected
LoopTop ==
    /\ pc["loop"] = "top"
    /\ IF ~running THEN
            /\ pc' = [pc EXCEPT !["loop"] = "exited"]
            /\ UNCHANGED <<retry_count, delays>>
       ELSE IF ~connected THEN
            IF auto_reconnect
            THEN \* self._reconnect() is entered
                 /\ pc' = [pc EXCEPT !["loop"] = "reconnect"]
                 /\ retry_count' = RetryStart(retry_count)
                 /\ delays' = << >>
            ELSE \* break
                 /\ pc' = [pc EXCEPT !["loop"] = "exited"]
                 /\ UNCHANGED <<retry_count, delays>>
       ELSE /\ pc' = [pc EXCEPT !["loop"] = "recv"]
            /\ UNCHANGED <<retry_count, delays>>
    /\ UNCHANGED <<corrVars, configured, response, socket, connected, running, auto_reconnect, buffer,
                   wire, status, attempt, losses, disconnect_called, recovered>>

\* _reconnect: the test of the while loop, the delay and its status signal
ReconnectTop ==
    /\ pc["loop"] = "reconnect"
    /\ IF running /\ auto_reconnect /\ ~connected
       THEN /\ status' = Status(FALSE, "Reconnecting in {delay}s...", Delay(retry_count))
            /\ delays' = Append(delays, Delay(retry_count))
            /\ pc' = [pc EXCEPT !["loop"] = "sleep"]
       ELSE \* return False, and `continue` in _event_loop
            /\ pc' = [pc EXCEPT !["loop"] = "top"]
            /\ UNCHANGED <<status, delays>>
    /\ UNCHANGED <<corrVars, configured, response, socket, connected, running, auto_reconnect,
                   retry_count, buffer, wire, attempt, losses, disconnect_called, recovered>>

\* as AfterSleep, had the flags not been tested again after the sleep
AfterSleepUnchecked(run, auto) == "connect"

\* _reconnect: `if not self.running or not self._auto_reconnect: break`, and then
\* `return False` to _event_loop; else self.connect() is called
AfterSleep(run, auto) == IF ~run \/ ~auto THEN "top" ELSE "connect"

\* _reconnect: time.sleep(delay) is over, the flags are tested again
Wake ==
    /\ pc["loop"] = "sleep"
    /\ pc' = [pc EXCEPT !["loop"] = AfterSleep(running, auto_reconnect)]
    /\ UNCHANGED <<corrVars, configured, response, socket, connected, running, auto_reconnect,
                   retry_count, buffer, wire, status, attempt, delays, losses,
                   disconnect_called, recovered>>

\* _event_loop: self.socket.recv(4096) times out
RecvTimeout ==
    /\ pc["loop"] = "recv"
    /\ socket = "open"
    /\ pc' = [pc EXCEPT !["loop"] = "top"]
    /\ UNCHANGED <<corrVars, configured, response, socket, connected, running, auto_reconnect,
                   retry_count, buffer, wire, status, attempt, delays, losses,
                   disconnect_called, recovered>>

\* _event_loop: recv returns no data, the peer has closed the connection
RecvClosed ==
    /\ pc["loop"] = "recv"
    /\ socket = "open"
    /\ losses < MaxLosses
    /\ losses' = losses + 1
    /\ connected' = FALSE
    /\ status' = Status(FALSE, "Disconnected", 0)
    /\ pc' = [pc EXCEPT !["loop"] = "top"]
    /\ UNCHANGED <<corrVars, configured, response, socket, running, auto_reconnect, retry_count,
                   buffer, wire, attempt, delays, disconnect_called, recovered>>

\* as RecvError, had the exception ended the thread
RecvErrorEndsLoop ==
    /\ pc["loop"] = "recv"
    /\ socket = "open" => losses < MaxLosses
    /\ losses' = IF socket = "open" THEN losses + 1 ELSE losses
    /\ connected' = FALSE
    /\ status' = Status(FALSE, "Connection lost", 0)
    /\ buffer' = << >>
    /\ pc' = [pc EXCEPT !["loop"] = "exited"]
    /\ UNCHANGED <<corrVars, configured, response, socket, running, auto_reconnect, retry_count,
                   wire, attempt, delays, disconnect_called, recovered>>

\* as RecvError, had the handler left the frame buffer as it was
RecvErrorKeepsBuffer ==
    /\ pc["loop"] = "recv"
    /\ socket = "open" => losses < MaxLosses
    /\ losses' = IF socket = "open" THEN losses + 1 ELSE losses
    /\ connected' = FALSE
    /\ status' = Status(FALSE, "Connection lost", 0)
    /\ pc' = [pc EXCEPT !["loop"] = "top"]
    /\ UNCHANGED <<corrVars, configured, response, socket, running, auto_reconnect, retry_count,
                   buffer, wire, attempt, delays, disconnect_called, recovered>>

\* _event_loop: an exception other than socket.timeout in the try block: recv
\* raises (I/O error, or the socket was closed by disconnect()), the bytes do not
\* decode, or _process_event raises
RecvError ==
    /\ pc["loop"] = "recv"
    /\ socket = "open" => losses < MaxLosses
    /\ losses' = IF socket = "open" THEN losses + 1 ELSE losses
    /\ connected' = FALSE
    /\ status' = Status(FALSE, "Connection lost", 0)
    /\ buffer' = << >>
    /\ pc' = [pc EXCEPT !["loop"] = "top"]
    /\ UNCHANGED <<corrVars, configured, response, socket, running, auto_reconnect, retry_count,
                   wire, attempt, delays, disconnect_called, recovered>>

\* what the PBX sends at a time: one frame
SingleFrames == {<<f>> : f \in SessionFrames}

\* what the PBX sends at a time: one frame, or two frames at once
Bursts ==
    {<<f>> : f \in StreamFrames} \cup {pair \in StreamFrames \X StreamFrames : pair[1] # pair[2]}

\* the text of a burst but for the terminator of its last frame
RECURSIVE BurstText(_)
BurstText(burst) ==
    IF Len(burst) = 1 THEN burst[1]
    ELSE burst[1] \o Terminator \o BurstText(Tail(burst))

\* where a read may end inside frame text f and its terminator: between the two
\* bytes of a character, between the two CRLF of the terminator, after the
\* terminator
Cuts(f) == {i \in 1..Len(f) : f[i] = LeadByte} \cup {Len(f) + 2, Len(f) + 4}

\* all of a sequence but its last element
Front(seq) == SubSeq(seq, 1, Len(seq) - 1)

\* as NextFrame, had the buffer been split at its last terminator
RECURSIVE NextFrameLast(_)
NextFrameLast(text) ==
    LET cut == SplitOnce(text, Terminator)
    IN  IF Contains(cut[2], Terminator)
        THEN <<cut[1] \o Terminator \o NextFrameLast(cut[2])[1], NextFrameLast(cut[2])[2]>>
        ELSE cut

\* event_str, buffer = buffer.split('\r\n\r\n', 1)
NextFrame(text) == SplitOnce(text, Terminator)

\* the number of frames that wait complete in a buffer
RECURSIVE CompleteFrames(_)
CompleteFrames(text) ==
    IF Contains(text, Terminator) THEN 1 + CompleteFrames(SplitOnce(text, Terminator)[2]) ELSE 0

\* the matches of the call of frame f are still counted
Countable(f) ==
    LET found == Caller(DetectedOf(watch_channel, f))
    IN  found # None =>
            Count(matched_count, AmiIdentity(LinkedId(DecodedOf(f)), found[1])) < MaxCount

\* data.decode('utf-8'): the text of the bytes of one read; it raises when a lead
\* byte is not followed by its continuation byte or a continuation byte has no
\* lead byte before it
Utf8Decode(bytes) ==
    [ok   |-> \A i \in 1..Len(bytes) :
                /\ bytes[i] = LeadByte =>
                        (i < Len(bytes) /\ bytes[i + 1] = ContinuationByte)
                /\ bytes[i] = ContinuationByte => (i > 1 /\ bytes[i - 1] = LeadByte),
     text |-> LET chars == [i \in 1..Len(bytes) |->
                              IF bytes[i] = LeadByte THEN TwoByteChar ELSE bytes[i]]
              IN  SelectSeq(chars, LAMBDA c : c # ContinuationByte)]

\* what a read returns of a burst that the PBX sends, the read ending at cut:
\* the bytes read, the bytes still to come, and the history, in which the frames
\* whose terminator was read have arrived
ReadOf(burst, cut) ==
    LET bytes == BurstText(burst) \o Terminator
        data  == SubSeq(bytes, 1, cut)
    IN  [data    |-> data,
         rest    |-> SubSeq(bytes, cut + 1, Len(bytes)),
         history |-> IF ~trace.on THEN trace
                     ELSE IF cut = Len(bytes) THEN Arrived(trace, "ami", burst)
                     ELSE [Arrived(trace, "ami", SubSeq(burst, 1, CompleteFrames(data)))
                             EXCEPT !.tail = burst[Len(burst)]]]

\* the reads that may come next on the socket: the rest of what the PBX has sent,
\* or else the PBX sends one of `sendable` and the read returns it whole or up to
\* one of its cuts
Reads(sendable) ==
    IF wire # << >>
    THEN {[data |-> wire, rest |-> << >>, history |-> Arrived(trace, "ami", <<trace.tail>>)]}
    ELSE UNION {{ReadOf(burst, cut) : cut \in Cuts(BurstText(burst))} :
                    burst \in {b \in sendable :
                                 /\ trace.on => Len(trace.arrived) + Len(b) <= MaxArrivals
                                 /\ \A i \in 1..Len(b) : Countable(Utf8Decode(b[i]).text)}}

\* _event_loop: data = self.socket.recv(4096).decode('utf-8'); buffer += data.
\* Bytes that do not decode raise, which the `except Exception` branch handles
RecvFrom(sendable) ==
    /\ pc["loop"] = "recv"
    /\ socket = "open"
    /\ \E got \in Reads(sendable) :
          /\ wire' = got.rest
          /\ trace' = got.history
          /\ IF Utf8Decode(got.data).ok
             THEN /\ buffer' = buffer \o Utf8Decode(got.data).text
                  /\ pc' = [pc EXCEPT !["loop"] = "drain"]
                  /\ UNCHANGED <<connected, status>>
             ELSE /\ connected' = FALSE
                  /\ status' = Status(FALSE, "Connection lost", 0)
                  /\ buffer' = << >>
                  /\ pc' = [pc EXCEPT !["loop"] = "top"]
    /\ UNCHANGED <<watch_channel, watch_number, webhook, processed_calls, once_keys, emitted, matched_count,
                   trimmed, fresh, last>>
    /\ UNCHANGED <<configured, response, socket, running, auto_reconnect, retry_count,
                   attempt, delays, losses, disconnect_called, recovered>>

\* a read on the session
RecvData == RecvFrom(SingleFrames)

\* a read on a session that carries two calls
RecvBurst == RecvFrom(Bursts)

\* _event_loop: `while '\r\n\r\n' in buffer:` the first frame is cut off the
\* buffer and handed to _process_event; then back to `while self.running`
ProcessBuffered ==
    /\ pc["loop"] = "drain"
    /\ IF Contains(buffer, Terminator)
       THEN /\ ProcessEvent(NextFrame(buffer)[1])
            /\ buffer' = NextFrame(buffer)[2]
            /\ UNCHANGED pc
       ELSE /\ pc' = [pc EXCEPT !["loop"] = "top"]
            /\ UNCHANGED <<corrVars, buffer>>
    /\ UNCHANGED <<configured, response, socket, connected, running, auto_reconnect, retry_count,
                   wire, status, attempt, delays, losses, disconnect_called, recovered>>

-----------------------------------------------------------------------------
(* Phone numbers: WooCommerceClient.normalize_phone, AsteriskAMI._normalize_number *)
(* A number is a sequence of single characters.                              *)

Digit == {"0", "1", "2", "3", "4", "5", "6", "7", "8", "9"}

IsDigit(c) == c \in Digit

\* re.sub(r'\D', '', phone)
OnlyDigits(phone) == SelectSeq(phone, IsDigit)

\* digits.startswith(prefix)
StartsWith(digits, prefix) ==
    Len(digits) >= Len(prefix) /\ SubSeq(digits, 1, Len(prefix)) = prefix

\* digits[n:]
Drop(digits, n) == SubSeq(digits, n + 1, Len(digits))

\* digits[-n:]
LastN(digits, n) ==
    IF Len(digits) <= n THEN digits ELSE SubSeq(digits, Len(digits) - n + 1, Len(digits))

\* ['1', '44', '49', '33', '39', '34', '31', '98', '359']
CallingCodes ==
    << <<"1">>, <<"4", "4">>, <<"4", "9">>, <<"3", "3">>, <<"3", "9">>, <<"3", "4">>,
       <<"3", "1">>, <<"9", "8">>, <<"3", "5", "9">> >>

\* as StripCallingCode, had the loop gone on after a prefix was stripped
RECURSIVE StripCallingCodes(_, _)
StripCallingCodes(digits, i) ==
    IF i > Len(CallingCodes) THEN digits
    ELSE IF StartsWith(digits, CallingCodes[i]) /\ Len(digits) > 10
         THEN StripCallingCodes(Drop(digits, Len(CallingCodes[i])), i + 1)
         ELSE StripCallingCodes(digits, i + 1)

\* as StripCallingCode, had a prefix been stripped only where more than ten
\* digits are left without it
RECURSIVE StripCallingCodeLeavingTen(_, _)
StripCallingCodeLeavingTen(digits, i) ==
    IF i > Len(CallingCodes) THEN digits
    ELSE IF StartsWith(digits, CallingCodes[i]) /\ Len(digits) - Len(CallingCodes[i]) > 10
         THEN Drop(digits, Len(CallingCodes[i]))
         ELSE StripCallingCodeLeavingTen(digits, i + 1)

\* for prefix in [...]: if digits.startswith(prefix) and len(digits) > 10:
\*     digits = digits[len(prefix):]; break
RECURSIVE StripCallingCode(_, _)
StripCallingCode(digits, i) ==
    IF i > Len(CallingCodes) THEN digits
    ELSE IF StartsWith(digits, CallingCodes[i]) /\ Len(digits) > 10
         THEN Drop(digits, Len(CallingCodes[i]))
         ELSE StripCallingCode(digits, i + 1)

\* if digits.startswith('00'): digits[2:]  elif digits.startswith('0'): digits[1:]
StripTrunkZeros(digits) ==
    IF StartsWith(digits, <<"0", "0">>) THEN Drop(digits, 2)
    ELSE IF StartsWith(digits, <<"0">>) THEN Drop(digits, 1)
    ELSE digits

\* as normalize_phone, had the leading zero been stripped from ten digits as well
normalize_phone_from_ten(phone) ==
    LET digits   == OnlyDigits(phone)
        stripped == IF Len(digits) >= 10
                    THEN StripCallingCode(StripTrunkZeros(digits), 1)
                    ELSE digits
    IN  IF Len(stripped) >= 10 THEN LastN(stripped, 10) ELSE stripped

\* as normalize_phone, had the digits that are left been returned whole
normalize_phone_untruncated(phone) ==
    LET digits == OnlyDigits(phone)
    IN  IF Len(digits) > 10 THEN StripCallingCode(StripTrunkZeros(digits), 1) ELSE digits

\* WooCommerceClient.normalize_phone
normalize_phone(phone) ==
    LET digits   == OnlyDigits(phone)
        stripped == IF Len(digits) > 10
                    THEN StripCallingCode(StripTrunkZeros(digits), 1)
                    ELSE digits
    IN  IF Len(stripped) >= 10 THEN LastN(stripped, 10) ELSE stripped

\* a in b, for two str
In(a, b) == a = << >> \/ Contains(b, a)

\* digits.lstrip('0')
RECURSIVE LStripZeros(_)
LStripZeros(digits) ==
    IF digits # << >> /\ Head(digits) = "0" THEN LStripZeros(Tail(digits)) ELSE digits

\* AsteriskAMI._normalize_number
normalize_number(number) == LStripZeros(OnlyDigits(number))

\* as numbers_match, had the last nine digits not been compared
numbers_match_contained_only(num1, num2) ==
    LET n1 == normalize_number(num1)
        n2 == normalize_number(num2)
    IN  IF n1 = << >> \/ n2 = << >> THEN FALSE
        ELSE In(n1, n2) \/ In(n2, n1)

\* AsteriskAMI._numbers_match
numbers_match(num1, num2) ==
    LET n1 == normalize_number(num1)
        n2 == normalize_number(num2)
    IN  IF n1 = << >> \/ n2 = << >> THEN FALSE
        ELSE \/ In(n1, n2)
             \/ In(n2, n1)
             \/ (Len(n1) >= 9 /\ Len(n2) >= 9 /\ LastN(n1, 9) = LastN(n2, 9))

\* as _phone_matches, had empty numbers not been turned away
phone_matches_unguarded(normalized_search, normalized_billing) ==
    \/ In(normalized_search, normalized_billing)
    \/ In(normalized_billing, normalized_search)
    \/ /\ Len(normalized_search) >= 9
       /\ Len(normalized_billing) >= 9
       /\ LastN(normalized_search, 9) = LastN(normalized_billing, 9)

\* WooCommerceClient._phone_matches
phone_matches(normalized_search, normalized_billing) ==
    IF normalized_search = << >> \/ normalized_billing = << >> THEN FALSE
    ELSE IF In(normalized_search, normalized_billing) \/ In(normalized_billing, normalized_search)
    THEN TRUE
    ELSE IF Len(normalized_search) >= 9 /\ Len(normalized_billing) >= 9
    THEN LastN(normalized_search, 9) = LastN(normalized_billing, 9)
    ELSE FALSE

\* search_orders_by_phone: both numbers are normalized, then compared
lookup_match(phone, billing_phone) ==
    phone_matches(normalize_phone(phone), normalize_phone(billing_phone))

\* subscriber numbers of nine, ten, eleven and seven digits
Subscribers ==
    { <<"8", "8", "8", "1", "2", "3", "4", "5", "6">>,
      <<"8", "8", "8", "0", "0", "0", "0", "0", "0">>,
      <<"4", "4", "7", "1", "2", "3", "4", "5", "6", "7">>,
      <<"1", "5", "5", "5", "0", "1", "0", "0", "9", "9", "9">>,
      <<"7", "1", "2", "3", "4", "5", "6">>,
      <<"4", "4", "7", "1", "2", "3", "4", "5", "6", "7", "8">> }

\* what a number is written with in front: nothing, trunk zeros, calling codes
Leads ==
    { << >>, <<"0">>, <<"0", "0">>, <<"+", "3", "5", "9">>, <<"0", "0", "3", "5", "9">>,
      <<"3", "5", "9">>, <<"+", "3", "5", "9", " ">>, <<"+", "4", "4">>, <<"+", "1">>,
      <<"0", "0", "9", "8">>, <<"(", "0", ")", " ">>, <<"+", "4", "9", "-">> }

\* the numbers that are normalized
RawNumbers ==
    {lead \o subscriber : lead \in Leads, subscriber \in Subscribers} \cup {<< >>, <<"0">>}

-----------------------------------------------------------------------------
(* The specifications *)

NoOp == [op |-> "none", input |-> << >>, response |-> NoResponse, emits |-> << >>]

\* the dedup cache and the history after construction, with `once` one-time calls
\* already notified
InitCorrelator(once) ==
    /\ processed_calls = {}
    /\ once_keys = once
    /\ emitted = EmptyDict
    /\ matched_count = EmptyDict
    /\ trimmed = FALSE
    /\ fresh = 0
    /\ last = NoOp
    /\ trace = Trace(FALSE)
    /\ webhook = NewWebhookServer

\* AsteriskAMI.__init__, and MainWindow._connect_ami about to call connect()
InitSession ==
    /\ socket = "none"
    /\ connected = FALSE
    /\ running = FALSE
    /\ auto_reconnect = TRUE
    /\ pc = [startup |-> "connect", loop |-> "idle", second |-> "idle"]
    /\ retry_count = 0
    /\ buffer = << >>
    /\ wire = << >>
    /\ status = NoStatus
    /\ attempt = Attempt("none", "none")
    /\ response = << >>
    /\ delays = << >>
    /\ losses = 0
    /\ disconnect_called = FALSE
    /\ recovered = -1

\* after construction
Init ==
    /\ watch_channel \in WatchChannels
    /\ watch_number = NoWatchNumber
    /\ configured \in BOOLEAN
    /\ InitCorrelator(0)
    /\ InitSession

\* an event record is handed to _process_event
AmiEvent == (\E e \in WideEvents : ProcessEvent(e)) /\ UNCHANGED sessVars

\* a request arrives at the webhook
WebhookRequest == (\E r \in Requests : HandleRequest(r)) /\ UNCHANGED <<sessVars, webhook>>

Next == AmiEvent \/ WebhookRequest

\* the correlator and the webhook, fed with records and requests of every kind
Spec == Init /\ [][Next]_vars

\* after WarmCache one-time calls have been notified, or as many as the cache holds
InitDedup ==
    /\ watch_channel = SIP9
    /\ watch_number = NoWatchNumber
    /\ configured = TRUE
    /\ \E once \in {WarmCache, TrimAbove} : InitCorrelator(once)
    /\ InitSession

\* a record of one of the recurring calls is handed to _process_event
DedupEvent == (\E e \in DedupEvents : ProcessEvent(e)) /\ UNCHANGED sessVars

\* a record of a call never seen before is handed to _process_event
FreshEvent == fresh < MaxFresh /\ ProcessEvent(FreshFrame) /\ UNCHANGED sessVars

NextDedup == DedupEvent \/ FreshEvent

\* the dedup cache near and at its capacity
SpecDedup == InitDedup /\ [][NextDedup]_vars

\* a session and a correlator that stay as they were constructed
InitNumbers ==
    /\ watch_channel = SIP9
    /\ watch_number = NoWatchNumber
    /\ configured = TRUE
    /\ InitCorrelator(0)
    /\ InitSession

\* normalize_phone(raw) is called
NormalizePhoneCall ==
    /\ \E raw \in RawNumbers :
            last' = [op |-> "normalize_phone", input |-> raw,
                     response |-> normalize_phone(raw), emits |-> << >>]
    /\ UNCHANGED <<watch_channel, watch_number, webhook, processed_calls, once_keys, emitted, matched_count,
                   trimmed, fresh, trace, sessVars>>

\* normalize_phone is called with the number that normalize_phone returned last
NormalizePhoneAgain ==
    /\ last.op = "normalize_phone"
    /\ last' = [op |-> "normalize_phone", input |-> last.response,
                response |-> normalize_phone(last.response), emits |-> << >>]
    /\ UNCHANGED <<watch_channel, watch_number, webhook, processed_calls, once_keys, emitted,
                   matched_count, trimmed, fresh, trace, sessVars>>

\* _normalize_number(raw) is called
NormalizeNumberCall ==
    /\ \E raw \in RawNumbers :
            last' = [op |-> "_normalize_number", input |-> raw,
                     response |-> normalize_number(raw), emits |-> << >>]
    /\ UNCHANGED <<watch_channel, watch_number, webhook, processed_calls, once_keys, emitted, matched_count,
                   trimmed, fresh, trace, sessVars>>

\* the lookup compares the number searched for with a billing number
PhoneMatchesCall ==
    /\ last.op = "none"
    /\ \E phone \in RawNumbers, billing_phone \in RawNumbers :
            last' = [op |-> "_phone_matches", input |-> <<phone, billing_phone>>,
                     response |-> lookup_match(phone, billing_phone), emits |-> << >>]
    /\ UNCHANGED <<watch_channel, watch_number, webhook, processed_calls, once_keys, emitted, matched_count,
                   trimmed, fresh, trace, sessVars>>

\* _numbers_match(num1, num2) is called
NumbersMatchCall ==
    /\ last.op = "none"
    /\ \E num1 \in RawNumbers, num2 \in RawNumbers :
            last' = [op |-> "_numbers_match", input |-> <<num1, num2>>,
                     response |-> numbers_match(num1, num2), emits |-> << >>]
    /\ UNCHANGED <<watch_channel, watch_number, webhook, processed_calls, once_keys, emitted, matched_count,
                   trimmed, fresh, trace, sessVars>>

\* the matcher has returned, its result has been used
MatchReturn ==
    /\ last.op \in {"_phone_matches", "_numbers_match"}
    /\ last' = NoOp
    /\ UNCHANGED <<watch_channel, watch_number, webhook, processed_calls, once_keys, emitted, matched_count,
                   trimmed, fresh, trace, sessVars>>

NextMatch == PhoneMatchesCall \/ NumbersMatchCall \/ MatchReturn

\* the two matchers, called one call after the other on numbers written in many ways
SpecMatch == InitNumbers /\ [][NextMatch]_vars

NextNumbers == NormalizePhoneCall \/ NormalizeNumberCall

\* the two normalizations, applied to numbers written in many ways
SpecNumbers == InitNumbers /\ [][NextNumbers]_vars

\* the thread of the webhook server
ServeStep == ServeTest \/ ServeAccept \/ ServeFinish

NextWebhook == WebhookStart \/ ServeStep \/ WebhookStop

\* the webhook server, started, serving requests of every kind, and stopped
SpecWebhook == InitNumbers /\ [][NextWebhook]_vars

\* the startup thread: connect(), then start_listening() if it returned True
StartupStep ==
    \/ ConnectBegin("startup")
    \/ ConnectIO("startup")
    \/ ConnectFinish("startup")
    \/ StartListening

\* the event-loop thread
LoopStep ==
    \/ LoopTop
    \/ ReconnectTop
    \/ Wake
    \/ ConnectBegin("loop")
    \/ ConnectIO("loop")
    \/ ConnectFinish("loop")
    \/ RecvTimeout
    \/ RecvClosed
    \/ RecvError
    \/ RecvData
    \/ ProcessBuffered

NextSession == StartupStep \/ LoopStep \/ Disconnect

\* the AMI session: its two threads, the network, and a caller of disconnect()
SpecSession == Init /\ [][NextSession]_vars

\* the AMI session used through its methods: start_listening() may be called again
SpecCalls == Init /\ [][NextSession \/ StartListeningAgain]_vars

\* the same, with both threads scheduled as long as they can take a step
FairSession == SpecSession /\ WF_vars(StartupStep) /\ WF_vars(LoopStep)

\* the requests of the mobile trigger: a call of either number, a body without a phone
StreamRequests ==
    {Request("POST", "/incoming-call", Body("object", Put(EmptyDict, <<"phone">>, JStr(p)))) :
        p \in {PhoneA, PhoneB}}
    \cup {Request("POST", "/incoming-call", Body("object", EmptyDict))}

\* after construction, the order of arrivals and notifications being recorded
InitStream ==
    /\ watch_channel \in WatchChannels
    /\ watch_number = NoWatchNumber
    /\ configured = TRUE
    /\ processed_calls = {}
    /\ once_keys = 0
    /\ emitted = EmptyDict
    /\ matched_count = EmptyDict
    /\ trimmed = FALSE
    /\ fresh = 0
    /\ last = NoOp
    /\ trace = Trace(TRUE)
    /\ webhook = NewWebhookServer
    /\ InitSession

\* the event-loop thread on a session that carries two calls
StreamLoopStep ==
    \/ LoopTop
    \/ ReconnectTop
    \/ Wake
    \/ ConnectBegin("loop")
    \/ ConnectIOUpTo("loop", StreamRetries)
    \/ ConnectFinish("loop")
    \/ RecvTimeout
    \/ RecvClosed
    \/ RecvError
    \/ RecvBurst
    \/ ProcessBuffered

\* _serve: one request is handled at a time
StreamRequest ==
    (\E req \in StreamRequests : HandleRequest(req)) /\ UNCHANGED <<sessVars, webhook>>

NextStream == StartupStep \/ StreamLoopStep \/ StreamRequest

\* both sources at work: the AMI session and the webhook server
SpecStream == InitStream /\ [][NextStream]_vars

\* what the PBX sends at a time on a session with a named caller: one frame, or
\* two frames at once
ByteBursts ==
    LET sent == SessionFrames \cup {NamedFrameBytes}
    IN  {<<f>> : f \in sent} \cup {pair \in sent \X sent : pair[1] # pair[2]}

\* a read on a session with a named caller
RecvBytes == RecvFrom(ByteBursts)

\* the event-loop thread on one connection
ReadsLoopStep ==
    \/ LoopTop
    \/ RecvTimeout
    \/ RecvBytes
    \/ ProcessBuffered

NextReads == StartupStep \/ ReadsLoopStep

\* one connection of the AMI session, read in every way
SpecReads == InitStream /\ [][NextReads]_vars

\* a frame of any writing is handed to _process_event
OddEvent == (\E e \in OddFrames : ProcessEvent(e)) /\ UNCHANGED sessVars

NextParse == OddEvent

\* the correlator, fed with frames of every writing
SpecParse == Init /\ [][NextParse]_vars

\* AsteriskAMI.__init__ with watch_channel and watch_number configured in every way
InitWatch ==
    /\ watch_channel \in WatchChannels
    /\ watch_number \in WatchNumbers
    /\ configured = TRUE
    /\ InitCorrelator(0)
    /\ InitSession

\* a ringing record is handed to _process_event
WatchEvent == (\E e \in WatchEvents : ProcessEvent(e)) /\ UNCHANGED sessVars

NextWatch == WatchEvent

\* the correlator under every configuration of watch_channel and watch_number
SpecWatch == InitWatch /\ [][NextWatch]_vars

NextAgain == NextNumbers \/ NormalizePhoneAgain

\* the normalizers, applied to written numbers and to what they returned
SpecAgain == InitNumbers /\ [][NextAgain]_vars

-----------------------------------------------------------------------------
(* Properties *)

RECURSIVE SumOver(_, _)
SumOver(S, f) ==
    IF S = {} THEN 0
    ELSE LET x == CHOOSE x \in S : TRUE IN f[x] + SumOver(S \ {x}, f)

\* the text "call_<linked-call id>_<caller>" of a call identity
KeyText(id) == <<"call", "_">> \o id.linked \o <<"_">> \o id.caller

\* the notifications emitted for the identities whose key text is k
EmittedForKey(k) == SumOver({i \in DOMAIN emitted : i.src = "ami" /\ KeyText(i) = k}, emitted)

LastIsCallPost ==
    /\ last.op = "http"
    /\ last.input.method = "POST"
    /\ last.input.path = "/incoming-call"

\* the phone value of the last request's body
LastPhone == Get(last.input.body.data, <<"phone">>, JStr(<< >>))

LastHasPhone ==
    /\ LastIsCallPost
    /\ last.input.body.kind = "object"
    /\ LastPhone.t = "str" /\ LastPhone.v # << >>

\* C2: a POST /incoming-call with a non-empty phone answers 200 {"status":"ok"} and
\* emits exactly one notification carrying the phone as received, in every state of
\* the dedup cache and after any earlier notification; and no webhook request
\* changes the dedup cache.
C2_WebhookEmitsUnconditionally ==
    /\ [](LastHasPhone =>
            /\ last.response = Response(200, <<"status", "ok">>)
            /\ Len(last.emits) = 1
            /\ last.emits[1].phone = LastPhone.v)
    /\ [][last'.op = "http" =>
            /\ processed_calls' = processed_calls
            /\ once_keys' = once_keys]_vars

\* a second identical POST has emitted, after an AMI notification for the same number
C2_Witness ==
    /\ LastHasPhone
    /\ LastPhone.v = PhoneA
    /\ Count(emitted, WebhookIdentity(PhoneA)) = 2
    /\ Count(emitted, AmiIdentity(<<"1">>, PhoneA)) = 1
    /\ CallKey(<<"1">>, PhoneA) \in processed_calls

\* C3 as stated: a POST /incoming-call with an empty body, without phone or with an
\* empty phone answers 400 and emits nothing.
C3_MissingPhoneIs400 ==
    (LastIsCallPost /\ ~LastHasPhone /\ last.input.body.kind \in {"empty", "object"})
        => (last.response.code = 400 /\ last.emits = << >>)

\* C4 as stated: every request other than POST /incoming-call and GET /health
\* answers 404 and emits nothing; GET /health answers 200 {"status":"running"}.
C4_EverythingElseIs404 ==
    last.op = "http" =>
        IF last.input.method = "GET" /\ last.input.path = "/health"
        THEN last.response = Response(200, <<"status", "running">>)
        ELSE IF last.input.method = "POST" /\ last.input.path = "/incoming-call"
        THEN TRUE
        ELSE last.response.code = 404 /\ last.emits = << >>

\* C4 amended: a GET or POST request to any other path answers 404, a request of any
\* other method answers 501, neither emits a notification; GET /health answers
\* 200 {"status":"running"}.
C4_OtherPath404OtherMethod501 ==
    last.op = "http" =>
        IF last.input.method = "GET" /\ last.input.path = "/health"
        THEN last.response = Response(200, <<"status", "running">>) /\ last.emits = << >>
        ELSE IF last.input.method = "POST" /\ last.input.path = "/incoming-call"
        THEN TRUE
        ELSE /\ last.emits = << >>
             /\ last.response.code = IF last.input.method \in {"GET", "POST"} THEN 404 ELSE 501

C4_Witness ==
    /\ last.op = "http"
    /\ last.input.method = "POST"
    /\ last.input.path = "/health"
    /\ last.response.code = 404
    /\ Count(emitted, WebhookIdentity(PhoneA)) = 1

\* the record handled last and what the three methods found in it
LastEvent == DecodedOf(last.input)
LastField(name) == Get(LastEvent, <<name>>, << >>)
LastDetect == Detect(LastEvent, watch_channel)

\* C5 as stated: a record whose CallerIDNum is "<unknown>" never matches and never
\* produces a notification, whatever its other fields are.
C5_UnknownNeverMatches ==
    (last.op = "ami" /\ LastField("CallerIDNum") = <<"<unknown>">>)
        => (~LastDetect.matched /\ last.emits = << >>)

\* C5 amended: a record whose CallerIDNum is "<unknown>" matches only as a Newstate
\* record through a ConnectedLineNum that is no placeholder, and the caller is then
\* that ConnectedLineNum.
C5_UnknownMatchesOnlyByConnectedLine ==
    (last.op = "ami" /\ LastField("CallerIDNum") = <<"<unknown>">>)
        => /\ LastDetect.matched =>
                /\ LastField("Event") = <<"Newstate">>
                /\ LastField("ConnectedLineNum") \notin Placeholders
                /\ LastDetect.actual_caller = Some(LastField("ConnectedLineNum"))
           /\ last.emits # << >> =>
                /\ LastDetect.matched
                /\ last.emits[1].phone = LastField("ConnectedLineNum")

C5_Witness ==
    /\ last.op = "ami"
    /\ LastField("CallerIDNum") = <<"<unknown>">>
    /\ LastField("Event") = <<"Newstate">>
    /\ last.emits # << >>
    /\ last.emits[1].phone = PhoneB

\* C6: no notification of the correlator carries '', "<unknown>", "s" or "anonymous"
\* as caller; the caller is the value of the record's CallerIDNum or ConnectedLineNum.
C6_CallerIsRealAndRaw ==
    (last.op = "ami" /\ last.emits # << >>)
        => /\ last.emits[1].phone \notin {<< >>, <<"<unknown>">>, <<"s">>, <<"anonymous">>}
           /\ last.emits[1].phone \in {Get(last.emits[1].meta, <<"CallerIDNum">>, << >>),
                                       Get(last.emits[1].meta, <<"ConnectedLineNum">>, << >>)}
           /\ last.emits[1].meta = LastEvent

C6_Witness ==
    /\ last.op = "ami"
    /\ last.emits # << >>
    /\ last.emits[1].phone = PhoneA
    /\ LastField("Event") = <<"DialState">>
    /\ LastField("ConnectedLineNum") = <<"<unknown>">>


\* some thread of the session can still take a step
SessionAlive == ENABLED (StartupStep \/ LoopStep)

\* C7: after any network failure of a connect attempt ("Connection failed"), the
\* very first attempt at startup included, the session goes on to another attempt
\* unless disconnect() is called: it never comes to rest on the failure.
C7_NetworkFailureAlwaysRetried ==
    (attempt.result = "Connection failed" /\ ~disconnect_called) => SessionAlive

\* C8, as claimed: once an attempt made by the reconnect loop has ended with
\* "Auth failed", the loop starts no further attempt.
C8_LoopStopsAfterAuthFailed ==
    [][attempt = Attempt("loop", "Auth failed") => attempt' = attempt]_vars

\* C8, amended: an attempt of the reconnect loop that ended with "Auth failed" is
\* counted like any failed attempt, and unless disconnect() is called the loop
\* goes through its next delay to a further connect() attempt.
C8_LoopRetriesAfterAuthFailed ==
    /\ [](attempt = Attempt("loop", "Auth failed") => retry_count >= 1)
    /\ (attempt = Attempt("loop", "Auth failed"))
            ~> (attempt = Attempt("loop", "pending") \/ disconnect_called)

\* the loop was rejected, has slept the next delay, and is about to call connect()
C8_Witness ==
    /\ attempt = Attempt("loop", "Auth failed")
    /\ pc["loop"] = "connect"
    /\ status.msg = "Reconnecting in {delay}s..."

\* C9: within one _reconnect call the delays are 5, 10, 20, 40, 60, 60, 60, ...:
\* the k-th delay (k from 0) is min(5 * 2^k, 60), and none exceeds 60.
C9_BackoffSequence ==
    \A k \in 1..Len(delays) :
        /\ delays[k] = IF k <= 4 THEN <<5, 10, 20, 40>>[k] ELSE 60
        /\ delays[k] <= 60

\* six delays have been slept in one _reconnect call
C9_Witness == Len(delays) >= 6 /\ pc["loop"] = "sleep"

\* C10: after a successful reconnect, the first delay of the next _reconnect call
\* is 5 seconds again, however many attempts failed before the success.
C10_CounterResetsOnSuccess ==
    (recovered >= 0 /\ pc["loop"] = "sleep") => delays[1] = 5

\* a reconnect succeeded after two failed attempts or more, the connection was
\* lost again, and the first delay of the next _reconnect call is being slept
C10_Witness ==
    /\ recovered >= 2
    /\ pc["loop"] = "sleep"
    /\ Len(delays) = 1


\* C11: once disconnect() has been called, the event loop does not enter
\* _reconnect again (and comes to its end).
C11_DisconnectIsTerminal ==
    [][disconnect_called => ~(pc["loop"] = "top" /\ pc'["loop"] = "reconnect")]_vars


\* C12: when the running flag is cleared while _reconnect sleeps, the loop goes
\* from the sleep to its end only: it calls connect() no more, emits no status
\* and records no successful reconnect.
C12_ClearedDuringSleepExits ==
    [][(~running /\ pc["loop"] \in {"sleep", "top", "exited"} /\ pc["startup"] = "done")
            => /\ pc["loop"] = "sleep" => pc'["loop"] \in {"sleep", "top"}
               /\ pc["loop"] = "top" => pc'["loop"] \in {"top", "exited"}
               /\ pc["loop"] = "exited" => pc'["loop"] = "exited"
               /\ attempt' = attempt
               /\ status' = status
               /\ recovered' = recovered]_vars

\* the flags were cleared during the sleep of the second delay, and the loop has ended
C12_Witness ==
    /\ pc["loop"] = "exited"
    /\ status = Status(FALSE, "Reconnecting in {delay}s...", 10)
    /\ attempt.by = "loop"


\* the status signals that report a failure
FailureStatus == {"Disconnected", "Connection lost", "Connection failed", "Auth failed"}

\* C13: the event loop ends only in a step that finds the running or the
\* auto-reconnect flag cleared; and while both are set, a failure reported by a
\* status signal leaves the loop unconnected at its loop test or in _reconnect,
\* able to go on.
C13_NoFailureIsFatal ==
    /\ [][(pc["loop"] # "exited" /\ pc'["loop"] = "exited")
            => (~running \/ ~auto_reconnect)]_vars
    /\ []((running /\ auto_reconnect /\ pc["loop"] # "idle")
            => /\ pc["loop"] # "exited"
               /\ status.msg \in FailureStatus
                    => (~connected /\ pc["loop"] \in {"top", "reconnect"} /\ ENABLED LoopStep))

\* after a reconnect that needed several attempts, the connection is lost again by
\* an exception and the loop is back in _reconnect
C13_Witness ==
    /\ running /\ auto_reconnect
    /\ recovered >= 1
    /\ losses = 2
    /\ status.msg = "Connection lost"
    /\ pc["loop"] = "reconnect"


\* the login response received last contains the success marker
MarkerReceived == \E i \in 1..Len(response) : response[i] = "Success"

\* a connect() call ends in this step, with this result
ConnectEnds(result) == attempt' # attempt /\ attempt'.result = result

\* C14: connected is set, and (True, "Connected") is emitted, only after a login
\* response with the success marker; a connect() call that fails returns False
\* and emits one failure status: "Not configured" without a socket and without
\* "Connecting...", else after the one "Connecting..." either "Auth failed" (marker
\* absent) or "Connection failed".
C14_ConnectOutcomes ==
    /\ []((connected \/ status.ok) => MarkerReceived)
    /\ [](status.ok => status.msg = "Connected")
    /\ [][\A result \in {"Not configured", "Auth failed", "Connection failed", "Connected"} :
            ConnectEnds(result) =>
                /\ status' = Status(result = "Connected", result, 0)
                /\ \E t \in {"startup", "loop"} :
                    /\ attempt'.by = t
                    /\ pc'[t] = IF result = "Connected"
                                THEN (IF t = "startup" THEN "start_listening" ELSE "recv")
                                ELSE (IF t = "startup" THEN "done" ELSE "reconnect")
                /\ IF result = "Not configured"
                   THEN ~configured /\ socket' = socket /\ socket = "none"
                        /\ status.msg # "Connecting..."
                   ELSE configured /\ status = Status(FALSE, "Connecting...", 0)
                        /\ attempt.result = "pending"
                /\ result = "Auth failed" =>
                        ~(\E i \in 1..Len(response') : response'[i] = "Success")
                /\ result = "Connected" => (connected' /\ MarkerReceived)]_vars

\* a reconnect attempt is accepted after a failed one
C14_Witness ==
    /\ status = Status(TRUE, "Connected", 0)
    /\ attempt = Attempt("loop", "Connected")
    /\ connected
    /\ recovered >= 1


\* the event-loop threads that have been started and have not ended
EventLoops == {t \in {"loop", "second"} : pc[t] \notin {"idle", "exited"}}

\* C15: whatever connect(), start_listening() and disconnect() calls are made, at
\* most one event-loop thread exists at any time, so that _processed_calls is
\* used by one thread only.
C15_AtMostOneEventLoop == Cardinality(EventLoops) <= 1


\* len(self._processed_calls) now, and after the step
CacheSize == CacheLen(processed_calls, once_keys)
CacheSizeAfter == CacheLen(processed_calls', once_keys')

\* the step is a _process_event call that notifies, and so inserts a key
Inserts == (last'.op = "ami" /\ last'.emits # << >>)

\* C17: after every _process_event call the dedup cache holds at most 200 keys,
\* and an insertion that makes it exceed 200 leaves exactly 100; the cache never
\* shrinks otherwise.
C17_CacheBounded ==
    /\ [](CacheSize <= 200)
    /\ [][(Inserts /\ CacheSize = 200) => CacheSizeAfter = 100]_vars
    /\ [][(Inserts /\ CacheSize < 200) => CacheSizeAfter = CacheSize + 1]_vars
    /\ [][~Inserts => CacheSizeAfter = CacheSize]_vars

\* the cache has been cut from 201 keys to 100, and a key has been inserted since
C17_Witness == trimmed /\ CacheSize = 101 /\ processed_calls # {}

\* the key inserted by the step
InsertedKey == CallKey(LinkedId(DecodedOf(last'.input)), last'.emits[1].phone)

\* C18: when the cache is trimmed, the key whose insertion triggered the trim is
\* among the 100 that remain (being the most recent one).
C18_TriggeringKeySurvivesTrim ==
    [][(Inserts /\ CacheSize = 200 /\ LinkedId(DecodedOf(last'.input)) # OnceId)
            => InsertedKey \in processed_calls']_vars


\* C19: connect(), disconnect(), a connection loss and a reconnect leave the
\* dedup cache as it is: it changes only by the insertion of a notified call's
\* key, every notified call's key stays in it, and so no call is notified twice,
\* before or after a reconnect.
C19_CacheNeverReset ==
    /\ [][(processed_calls' # processed_calls \/ once_keys' # once_keys)
            => (Inserts /\ processed_calls \subseteq processed_calls'
                        /\ once_keys' >= once_keys)]_vars
    /\ [](\A id \in DOMAIN emitted :
            id.src = "ami" => (emitted[id] = 1 /\ KeyText(id) \in processed_calls))

\* a second record of a notified call has been suppressed on a connection that
\* the reconnect loop made after a loss, and disconnect() has been called
C19_Witness ==
    /\ \E id \in DOMAIN matched_count : matched_count[id] = 2 /\ Count(emitted, id) = 1
    /\ last.op = "ami" /\ last.emits = << >>
    /\ attempt = Attempt("loop", "Connected")
    /\ disconnect_called
    /\ losses >= 1


\* "0888123456" and "888123456"
Number0888123456 == <<"0", "8", "8", "8", "1", "2", "3", "4", "5", "6">>
Number888123456 == <<"8", "8", "8", "1", "2", "3", "4", "5", "6">>

\* C20, as claimed: normalize("0888123456") returns "888123456", for either of
\* the two normalizations.
C20_NormalizeStripsZero ==
    (last.op \in {"normalize_phone", "_normalize_number"} /\ last.input = Number0888123456)
        => last.response = Number888123456

\* C20, amended: _normalize_number("0888123456") returns "888123456", but
\* normalize_phone("0888123456") returns "0888123456": ten digits are not more
\* than ten, so nothing is stripped.
C20_NormalizeTenDigits ==
    /\ (last.op = "_normalize_number" /\ last.input = Number0888123456)
            => last.response = Number888123456
    /\ (last.op = "normalize_phone" /\ last.input = Number0888123456)
            => last.response = Number0888123456

C20_Witness ==
    /\ last.op = "normalize_phone"
    /\ last.input = Number0888123456
    /\ Len(last.response) = 10

\* the items that arrived from source src, in the order of their arrival
ArrivedFrom(src) ==
    LET of == SelectSeq(trace.arrived, LAMBDA a : a.src = src)
    IN  [i \in 1..Len(of) |-> of[i].item]

\* the phones of the notifications of source src, in the order of their emission
NotifiedFrom(src) ==
    LET of == SelectSeq(trace.notified, LAMBDA n : n.src = src)
    IN  [i \in 1..Len(of) |-> of[i].phone]

\* the callers that a sequence of frames notifies when the frames are handled one
\* after the other, `seen` being the call keys of the frames handled before
RECURSIVE InOrder(_, _)
InOrder(frames, seen) ==
    IF frames = << >> THEN << >>
    ELSE LET found == Caller(DetectedOf(watch_channel, frames[1]))
             key   == CallKey(LinkedId(DecodedOf(frames[1])), found[1])
         IN  IF found = None \/ key \in seen
             THEN InOrder(Tail(frames), seen)
             ELSE <<found[1]>> \o InOrder(Tail(frames), seen \cup {key})

\* the phones that a sequence of requests notifies when the requests are served
\* one after the other
RECURSIVE ServedInOrder(_)
ServedInOrder(requests) ==
    IF requests = << >> THEN << >>
    ELSE LET emits == Dispatch(requests[1]).emits
         IN  [i \in 1..Len(emits) |-> emits[i].phone] \o ServedInOrder(Tail(requests))

\* C16: within one source the notifications are emitted in the order of arrival.
\* The AMI notifications emitted so far are those of the frames completed on the
\* socket stream and no longer waiting in the buffer, taken in the order of their
\* completion; the webhook notifications are those of the requests served, taken
\* in the order in which they were served.
C16_NotificationOrderIsArrivalOrder ==
    trace.on =>
        /\ CompleteFrames(buffer) <= Len(ArrivedFrom("ami"))
        /\ NotifiedFrom("ami") =
             InOrder(SubSeq(ArrivedFrom("ami"), 1,
                            Len(ArrivedFrom("ami")) - CompleteFrames(buffer)), {})
        /\ NotifiedFrom("android") = ServedInOrder(ArrivedFrom("android"))

\* C16 witness: two frames were read at once, the call of the second number first,
\* both calls were notified in this order, the second of them after the
\* notification of a request that was served in between.
C16_Witness ==
    /\ trace.on
    /\ ArrivedFrom("ami") = <<CHOOSE f \in StreamFrames \ SessionFrames : TRUE,
                              CHOOSE f \in SessionFrames : TRUE>>
    /\ trace.notified = <<[src |-> "ami", phone |-> PhoneB],
                          [src |-> "android", phone |-> PhoneA],
                          [src |-> "ami", phone |-> PhoneA]>>
    /\ buffer = << >>

\* what precedes the calling code in a number: the digits of the number but for a
\* leading "00" or "0", which go only from more than ten digits
DigitString(raw) ==
    IF Len(OnlyDigits(raw)) > 10 THEN StripTrunkZeros(OnlyDigits(raw)) ELSE OnlyDigits(raw)

\* the places in the list of the calling codes that a digit string starts with
CodesOf(digits) == {i \in 1..Len(CallingCodes) : StartsWith(digits, CallingCodes[i])}

\* a digit string without the first calling code of the list that it starts with
WithoutFirstCode(digits) ==
    LET first == CHOOSE i \in CodesOf(digits) : \A j \in CodesOf(digits) : i <= j
    IN  SubSeq(digits, Len(CallingCodes[first]) + 1, Len(digits))

\* the last ten digits, or all of them if there are fewer
LastTen(digits) ==
    IF Len(digits) >= 10 THEN SubSeq(digits, Len(digits) - 9, Len(digits)) ELSE digits

Number359888123456 ==
    <<"+", "3", "5", "9", "8", "8", "8", "1", "2", "3", "4", "5", "6">>

\* C21: normalize_phone strips at most one calling code, the first of the list
\* that the digit string starts with, and returns the last ten digits of what
\* remains, or all of it if it is shorter; normalize_phone("+359888123456") is
\* "888123456".
C21_AtMostTheFirstCode ==
    last.op = "normalize_phone" =>
        /\ \/ last.response = LastTen(DigitString(last.input))
           \/ /\ CodesOf(DigitString(last.input)) # {}
              /\ last.response = LastTen(WithoutFirstCode(DigitString(last.input)))
        /\ last.input = Number359888123456 => last.response = Number888123456

\* C21 witness: normalize_phone("+359888123456") has returned "888123456".
C21_Witness ==
    /\ last.op = "normalize_phone"
    /\ last.input = Number359888123456
    /\ last.response = Number888123456

\* C22, as claimed: a calling code that the digit string starts with stays where
\* ten digits or fewer would be left without it.
C22_CodeStaysIfTenWouldBeLeft ==
    (/\ last.op = "normalize_phone"
     /\ CodesOf(DigitString(last.input)) # {}
     /\ Len(WithoutFirstCode(DigitString(last.input))) <= 10)
        => last.response = LastTen(DigitString(last.input))

\* C22, amended: the calling code is stripped where the digit string has more
\* than ten digits before it is stripped, however many are left; it stays where
\* the digit string has ten digits or fewer.
C22_CodeStrippedFromMoreThanTen ==
    (last.op = "normalize_phone" /\ CodesOf(DigitString(last.input)) # {}) =>
        IF Len(DigitString(last.input)) > 10
        THEN last.response = LastTen(WithoutFirstCode(DigitString(last.input)))
        ELSE last.response = LastTen(DigitString(last.input))

\* C22 witness: a calling code was stripped from twelve digits, nine are left.
C22_Witness ==
    /\ last.op = "normalize_phone"
    /\ Len(DigitString(last.input)) = 12
    /\ CodesOf(DigitString(last.input)) = {9}
    /\ Len(last.response) = 9
    /\ last.response = WithoutFirstCode(DigitString(last.input))

\* the two numbers of a matcher call as the matcher called normalizes them
Normalized(call) ==
    IF call.op = "_phone_matches"
    THEN <<normalize_phone(call.input[1]), normalize_phone(call.input[2])>>
    ELSE <<normalize_number(call.input[1]), normalize_number(call.input[2])>>

\* a occurs in b
Infix(a, b) == \E i \in 1..(Len(b) - Len(a) + 1) : SubSeq(b, i, i + Len(a) - 1) = a

\* a and b have nine digits or more, and the same last nine
SameLastNine(a, b) ==
    /\ Len(a) >= 9
    /\ Len(b) >= 9
    /\ SubSeq(a, Len(a) - 8, Len(a)) = SubSeq(b, Len(b) - 8, Len(b))

MatcherCalled == last.op \in {"_phone_matches", "_numbers_match"}

\* C23: either matcher returns true for two numbers whose normalized forms, both
\* with digits in them, contain one another or share their last nine digits;
\* match("0888123456", "+359888123456") is true.
C23_MatchByContainmentOrLastNine ==
    MatcherCalled =>
        /\ (/\ Normalized(last)[1] # << >>
            /\ Normalized(last)[2] # << >>
            /\ \/ Infix(Normalized(last)[1], Normalized(last)[2])
               \/ Infix(Normalized(last)[2], Normalized(last)[1])
               \/ SameLastNine(Normalized(last)[1], Normalized(last)[2]))
                => last.response = TRUE
        /\ last.input = <<Number0888123456, Number359888123456>> => last.response = TRUE

\* C23 witness: _numbers_match has returned true for two numbers of which neither
\* contains the other, by their last nine digits.
C23_Witness ==
    /\ last.op = "_numbers_match"
    /\ last.response = TRUE
    /\ ~Infix(Normalized(last)[1], Normalized(last)[2])
    /\ ~Infix(Normalized(last)[2], Normalized(last)[1])
    /\ SameLastNine(Normalized(last)[1], Normalized(last)[2])

\* C24: either matcher returns false when one of the two numbers normalizes to
\* the empty string.
C24_EmptyNeverMatches ==
    (MatcherCalled /\ (Normalized(last)[1] = << >> \/ Normalized(last)[2] = << >>))
        => last.response = FALSE

\* C24 witness: the lookup has compared "" with "888123456", the answer is false.
C24_Witness ==
    /\ last.op = "_phone_matches"
    /\ last.input = << << >>, Number888123456 >>
    /\ last.response = FALSE

\* C25: the two matchers give the same answer for every two numbers.
C25_MatchersAgree ==
    /\ last.op = "_phone_matches"
            => last.response = numbers_match(last.input[1], last.input[2])
    /\ last.op = "_numbers_match"
            => last.response = lookup_match(last.input[1], last.input[2])

\* the uppercased text of a channel before its first '-'
UpperBeforeDash(channel) ==
    LET dashes == {i \in 1..Len(channel) : channel[i] = "-"}
        text   == IF dashes = {} THEN channel
                  ELSE SubSeq(channel, 1, (CHOOSE i \in dashes : \A j \in dashes : i <= j) - 1)
    IN  [i \in 1..Len(text) |-> UpperChar(text[i])]

\* the record handled last would match by its event type, state and numbers if
\* its channel were the watched one; the channel that its heuristic looks at
LastWouldMatch ==
    \/ /\ LastField("Event") = <<"DialBegin">>
       /\ LastField("CallerIDNum") \notin Placeholders
    \/ /\ LastField("Event") = <<"DialState">>
       /\ LastField("ChannelStateDesc") = <<"Ringing">>
       /\ LastField("CallerIDNum") \notin Placeholders
    \/ /\ LastField("Event") = <<"Newstate">>
       /\ LastField("ChannelStateDesc") = <<"Ringing">>
       /\ \/ LastField("ConnectedLineNum") \notin Placeholders
          \/ LastField("CallerIDNum") \notin Placeholders
LastChannel ==
    IF LastField("Event") = <<"Newstate">> THEN LastField("Channel") ELSE LastField("DestChannel")

\* C26: with a watched channel configured, a record that satisfies its heuristic
\* otherwise matches exactly when the uppercased text of its channel before the
\* first '-' is the uppercased configured channel; a notification is emitted only
\* for such a channel.
C26_ChannelMatchesByUpperBaseName ==
    (last.op = "ami" /\ watch_channel # << >>) =>
        /\ LastWouldMatch =>
                (LastDetect.matched <=> UpperBeforeDash(LastChannel) = watch_channel)
        /\ last.emits # << >> => UpperBeforeDash(LastChannel) = watch_channel

\* C26 witness: a DialBegin towards "Sip/9-0c-1" was notified, the watched channel
\* being "SIP/9".
C26_Witness ==
    /\ last.op = "ami"
    /\ watch_channel = SIP9
    /\ LastField("Event") = <<"DialBegin">>
    /\ LastField("DestChannel") = ChanDashes
    /\ last.emits # << >>

\* the only step of a caller of stop()
StopStep == WebhookStop

\* C27: stop() returns, a request in flight when it is called finishes, and after
\* it has returned no socket listens and the serving thread has ended or was
\* never started.  A caller of stop() that has not returned has a step to take.
C27_StopCompletes ==
    /\ webhook.stop = "shutdown" => ENABLED StopStep
    /\ webhook.stop = "returned" =>
            (webhook.server = "none" /\ webhook.serve \in {"not started", "ended"})

\* C28: a read that raises while the session is connected leaves the session
\* disconnected, with a (FALSE, "Connection lost") status emitted and the frame
\* buffer empty; and the buffer changes only in the loop's read and drain steps,
\* so the first frame decoded after the reconnect starts from the empty buffer
ReadRaised ==
    connected /\ pc["loop"] = "recv" /\ pc'["loop"] = "top" /\ status'.msg = "Connection lost"

C28_ReadErrorEmptiesBuffer ==
    [][/\ ReadRaised => (~connected' /\ ~status'.ok /\ status' # status /\ buffer' = << >>)
       /\ buffer' # buffer => pc["loop"] \in {"recv", "drain"}
       /\ (buffer' # buffer /\ pc["loop"] = "drain") => buffer' = NextFrame(buffer)[2]]_vars

\* part of a frame had been read when the read raised: the rest is still to come
\* and the buffer is empty
C28_Witness ==
    status.msg = "Connection lost" /\ ~connected /\ losses > 0 /\ wire # << >> /\ buffer = << >>

\* C29: what is handed to the correlator does not depend on how the stream is cut
\* into reads.  On one connection the frames handed over so far are the frames
\* whose terminator has been read and which no longer wait in the buffer, as text
\* and in the order of the stream; nothing else is handed over.
C29_RecordsDoNotDependOnReads ==
    trace.on =>
        /\ CompleteFrames(buffer) <= Len(ArrivedFrom("ami"))
        /\ trace.handled =
             [i \in 1..(Len(ArrivedFrom("ami")) - CompleteFrames(buffer)) |->
                Utf8Decode(ArrivedFrom("ami")[i]).text]

\* text s without the white space around it
Trimmed(s) ==
    LET ink == {i \in 1..Len(s) : s[i] \notin Whitespace}
    IN  IF ink = {} THEN << >>
        ELSE SubSeq(s, CHOOSE i \in ink : \A j \in ink : i <= j,
                       CHOOSE i \in ink : \A j \in ink : j <= i)

\* the position of the first ':' of a line that has one
FirstColon(line) ==
    CHOOSE i \in 1..Len(line) : line[i] = ":" /\ \A j \in 1..(i - 1) : line[j] # ":"

FieldName(line) == Trimmed(SubSeq(line, 1, FirstColon(line) - 1))
FieldValue(line) == Trimmed(SubSeq(line, FirstColon(line) + 1, Len(line)))

\* the fields written in a frame: of every line with a ':' the name and the value,
\* the value of a name that is written more than once being the one written last
FieldsOf(frame) ==
    LET lines  == Split(Trimmed(frame), CRLF)
        fields == {i \in 1..Len(lines) : \E j \in 1..Len(lines[i]) : lines[i][j] = ":"}
    IN  [name \in {FieldName(lines[i]) : i \in fields} |->
            FieldValue(lines[CHOOSE i \in fields :
                                /\ FieldName(lines[i]) = name
                                /\ \A j \in fields : FieldName(lines[j]) = name => j <= i])]

\* C30: the event record of a frame, as the incoming_call signal carries it, has
\* exactly the fields written in that frame: every line with a ':' gives the name
\* before its first ':' and the value after it, both without the white space
\* around them, and a line without ':' gives nothing.
C30_RecordHasTheFieldsOfTheFrame ==
    (last.op = "ami" /\ last.emits # << >>) => last.emits[1].meta = FieldsOf(last.input)

\* C30 witness: a record was emitted for the frame that has a line without ':', a
\* value with ':' in it, white space around names and values and a field written
\* twice; the value keeps its ':' and the line without ':' is no field.
C30_Witness ==
    /\ last.op = "ami"
    /\ last.emits # << >>
    /\ Contains(last.input, <<"--END COMMAND--">>)
    /\ <<"Time">> \in DOMAIN last.emits[1].meta
    /\ last.emits[1].meta[<<"Time">>] = <<"12", ":", "30">>
    /\ last.emits[1].meta[<<"CallerIDNum">>] = PhoneA
    /\ << >> \in DOMAIN last.emits[1].meta
    /\ \A name \in DOMAIN last.emits[1].meta : ~Contains(name, <<"--END COMMAND--">>)

\* the outcome of each method tried on its own on the record handled last
Unmatched == [actual_caller |-> None, matched |-> FALSE]
LastAlone ==
    <<Method1(LastEvent, watch_channel), Method2(LastEvent, watch_channel, Unmatched),
      Method3(LastEvent, watch_channel, Unmatched)>>

\* the first of the methods that matches the record handled last, 0 when none does
LastFirstMatch ==
    IF \E m \in 1..3 : LastAlone[m].matched
    THEN CHOOSE m \in 1..3 : LastAlone[m].matched /\ \A n \in 1..(m - 1) : ~LastAlone[n].matched
    ELSE 0

\* C31: a record gives at most one notification; its caller is the caller of the
\* first of DialBegin, DialState, Newstate that matches the record, no other method
\* matches it, and a record of another event type gives no notification.
C31_AtMostOneCandidate ==
    last.op = "ami" =>
        /\ Len(last.emits) <= 1
        /\ Cardinality({m \in 1..3 : LastAlone[m].matched}) <= 1
        /\ last.emits # << >> =>
                /\ LastFirstMatch # 0
                /\ LastField("Event") = << <<"DialBegin", "DialState", "Newstate">>[LastFirstMatch]>>
                /\ Some(last.emits[1].phone) = LastAlone[LastFirstMatch].actual_caller
        /\ LastField("Event") \notin {<<"DialBegin">>, <<"DialState">>, <<"Newstate">>}
                => last.emits = << >>

\* C31 witness: a Hangup record on the watched channel, in state Ringing and with a
\* real connected-line number, was handled and gave no notification.
C31_Witness ==
    /\ last.op = "ami"
    /\ LastField("Event") = <<"Hangup">>
    /\ watch_channel # << >>
    /\ BaseName(LastField("Channel")) = watch_channel
    /\ LastField("ChannelStateDesc") = <<"Ringing">>
    /\ LastField("ConnectedLineNum") = PhoneB
    /\ last.emits = << >>

\* the record handled last is towards the watched channel and has a caller-id
\* that is no placeholder
LastDialsWatched ==
    /\ UpperBeforeDash(LastField("DestChannel")) = watch_channel
    /\ LastField("CallerIDNum") \notin Placeholders

\* C32: with a watched channel configured, a DialState record matches exactly when
\* its state is "Ringing", the base name of its DestChannel is the watched channel
\* and its CallerIDNum is no placeholder; a DialBegin record matches exactly when
\* the last two hold, whatever its state; the caller is the CallerIDNum, and the
\* first record of a call that matches is notified.
C32_DialStateNeedsRinging ==
    (last.op = "ami" /\ watch_channel # << >>) =>
        /\ LastField("Event") = <<"DialState">> =>
                (LastDetect.matched <=>
                    (LastField("ChannelStateDesc") = <<"Ringing">> /\ LastDialsWatched))
        /\ LastField("Event") = <<"DialBegin">> => (LastDetect.matched <=> LastDialsWatched)
        /\ LastField("Event") \in {<<"DialBegin">>, <<"DialState">>} =>
                /\ LastDetect.matched =>
                        LastDetect.actual_caller = Some(LastField("CallerIDNum"))
                /\ last.emits # << >> =>
                        (LastDetect.matched /\ last.emits[1].phone = LastField("CallerIDNum"))

\* C32 witness: a DialBegin record in state "Up" was notified.
C32_Witness ==
    /\ last.op = "ami"
    /\ LastField("Event") = <<"DialBegin">>
    /\ LastField("ChannelStateDesc") = <<"Up">>
    /\ last.emits # << >>
    /\ last.emits[1].phone = PhoneA

\* the caller that a ringing Newstate record on the watched channel names: its
\* ConnectedLineNum, else its CallerIDNum, placeholders left out
LastRingingCaller ==
    IF LastField("ConnectedLineNum") \notin Placeholders THEN Some(LastField("ConnectedLineNum"))
    ELSE IF LastField("CallerIDNum") \notin Placeholders THEN Some(LastField("CallerIDNum"))
    ELSE None

\* C33: with a watched channel configured, a Newstate record matches exactly when
\* its state is "Ringing", the base name of its own Channel is the watched channel
\* and its ConnectedLineNum or its CallerIDNum is no placeholder; the caller is the
\* ConnectedLineNum if that is no placeholder and the CallerIDNum otherwise.  Its
\* DestChannel plays no part.
C33_NewstatePrefersConnectedLine ==
    (last.op = "ami" /\ watch_channel # << >> /\ LastField("Event") = <<"Newstate">>) =>
        /\ LastDetect.matched <=>
                /\ LastField("ChannelStateDesc") = <<"Ringing">>
                /\ UpperBeforeDash(LastField("Channel")) = watch_channel
                /\ LastRingingCaller # None
        /\ LastDetect.matched => LastDetect.actual_caller = LastRingingCaller
        /\ last.emits # << >> =>
                (LastDetect.matched /\ Some(last.emits[1].phone) = LastRingingCaller)

\* C33 witness: a ringing Newstate record on the watched channel that has both
\* numbers was notified with its ConnectedLineNum.
C33_Witness ==
    /\ last.op = "ami"
    /\ LastField("Event") = <<"Newstate">>
    /\ LastField("CallerIDNum") = PhoneA
    /\ LastField("ConnectedLineNum") = PhoneB
    /\ UpperBeforeDash(LastField("DestChannel")) # watch_channel
    /\ last.emits # << >>
    /\ last.emits[1].phone = PhoneB

\* C34: every frame handed to _process_event is a frame that the PBX sent on one
\* connection; none is made of what was read before the peer closed a connection
\* and of what was read on the next one.
C34_NoRecordAcrossConnections ==
    trace.on => \A i \in 1..Len(trace.handled) : trace.handled[i] \in StreamFrames

\* C35: once disconnect() has returned, its flags being as it left them, the
\* reconnect attempts of the event loop emit no (TRUE, "Connected") status, and when the event loop has stopped as well
\* the connected flag is FALSE and the socket of the session is not open.
C35_DisconnectedForGood ==
    /\ [][(disconnect_called /\ ~running) =>
            ~(status'.ok /\ status' # status /\ attempt'.by = "loop")]_vars
    /\ []((disconnect_called /\ pc["loop"] = "exited") => (~connected /\ socket # "open"))

\* C36: records of different call identities never suppress one another: every
\* identity of which a record satisfied a heuristic has been notified, and two
\* identities that have the same call key are the same identity.
C36_IdentitiesDoNotCollide ==
    /\ \A id \in DOMAIN matched_count : id.src = "ami" => Count(emitted, id) >= 1
    /\ \A id, other \in DOMAIN matched_count :
            (id.src = "ami" /\ other.src = "ami"
                /\ CallKey(id.linked, id.caller) = CallKey(other.linked, other.caller))
            => id = other

\* the caller that a record names to someone who watches channel wc, None when
\* it names none: told from the event type, the state, the channel that the type
\* looks at and the numbers of the record
NamedCaller(event, wc) ==
    LET type      == Get(event, <<"Event">>, << >>)
        ringing   == Get(event, <<"ChannelStateDesc">>, << >>) = <<"Ringing">>
        caller    == Get(event, <<"CallerIDNum">>, << >>)
        line      == Get(event, <<"ConnectedLineNum">>, << >>)
        towards   == UpperBeforeDash(Get(event, <<"DestChannel">>, << >>)) = wc
        on        == UpperBeforeDash(Get(event, <<"Channel">>, << >>)) = wc
    IN  IF \/ type = <<"DialBegin">> /\ towards
           \/ type = <<"DialState">> /\ towards /\ ringing
        THEN (IF caller \notin Placeholders THEN Some(caller) ELSE None)
        ELSE IF type = <<"Newstate">> /\ on /\ ringing
        THEN (IF line \notin Placeholders THEN Some(line)
              ELSE IF caller \notin Placeholders THEN Some(caller) ELSE None)
        ELSE None

C38_NormalizeIdempotentAndBounded ==
    /\ [](last.op = "normalize_phone" =>
            /\ Len(last.response) <= 10
            /\ \A i \in 1..Len(last.response) : IsDigit(last.response[i]))
    /\ [][(last.op = "normalize_phone" /\ last'.op = "normalize_phone"
                /\ last'.input = last.response)
            => last'.response = last.response]_vars

\* C38 witness: a number of ten digits that normalize_phone had made out of a
\* longer one by taking off the calling code was normalized again.
C38_Witness ==
    /\ last.op = "normalize_phone"
    /\ last.input = last.response
    /\ Len(last.input) = 10
    /\ last.input \notin RawNumbers

====
